---- MODULE Spec2Model ----
(***************************************************************************)
(* brainbox: the encrypted vault store (src-tauri/src/vault.rs, lib.rs)    *)
(* and the file-based sync engine (src-tauri/src/sync.rs), two devices     *)
(* exchanging one sync file through a shared folder.                       *)
(*                                                                         *)
(* Modelling conventions                                                   *)
(*  - Option<T>: None is <<>>, Some(x) is <<x>>.                           *)
(*  - An RFC3339 timestamp of chrono::Utc::now() is the integer reading of *)
(*    one wall clock `now`; every handler reads the clock once and no two  *)
(*    handlers run at the same instant.  The code compares the timestamp   *)
(*    strings, which orders them as the instants they denote.              *)
(*  - uuid::Uuid::new_v4() and the OsRng nonce are draws from `entropy`,   *)
(*    a counter: a draw never repeats an earlier one.                      *)
(*  - A 32-byte key is the pair <<password, salt>> it is derived from;     *)
(*    an XChaCha20-Poly1305 blob is the record of its key, plaintext and   *)
(*    nonce, and opens only under the same key.                            *)
(*  - A SQLite table is the set of its rows; AUTOINCREMENT is `seq`.       *)
(***************************************************************************)
EXTENDS Integers, Sequences, FiniteSets, TLC

VARIABLES
    vaults,    \* device -> rows of its table vaults
    items,     \* device -> rows of its table vault_items
    seq,       \* device -> last rowid given out by each AUTOINCREMENT table
    settings,  \* device -> its sync_settings, by key
    file,      \* the sync file in the shared folder: None until a first export
    now,       \* the wall clock
    entropy,   \* draws made so far from the random sources
    res,       \* what the last handler was and what it returned
    held,      \* device -> the contents its items have held so far
    mark,      \* device -> its rows when the current round of the exchange began
    left,      \* user operations the run may still make
    phase,     \* "edit", or "exchange" once the users have stopped editing
    turn       \* steps of the exchange made so far

vars ==
    <<vaults, items, seq, settings, file, now, entropy, res, held, mark, left,
      phase, turn>>

Dev == {"A", "B"}

None == <<>>

Some(x) == <<x>>

IsSome(o) == o # <<>>

IsNone(o) == o = <<>>

\* F applied to the value of v, v evaluated once
Bind(v, F(_)) == CHOOSE y \in {F(x) : x \in {v}} : TRUE

\* ------------------------------------------------------------------ crypto

\* pbkdf2_hmac::<Sha256>(password, salt, 100_000): deterministic, and distinct
\* (password, salt) pairs give distinct keys.
derive_key_from_password(password, salt) == <<password, salt>>

\* nonce || ciphertext
encrypt_content(key, plaintext, nonce) ==
    [key |-> key, pt |-> plaintext, nonce |-> nonce]

encrypt_password(key, password, nonce) == encrypt_content(key, password, nonce)

\* Ok(plaintext) is <<plaintext>>, Err is <<>>
decrypt_content(key, encrypted) ==
    IF encrypted.key = key THEN Some(encrypted.pt) ELSE None

\* String::from_utf8_lossy of the raw nonce and ciphertext bytes
from_utf8_lossy(encrypted) == "garbled"

\* the key the frontend derives for a vault it has unlocked with `password`
VaultKey(password, vault_id) ==
    derive_key_from_password(password, ToString(vault_id))

\* ------------------------------------------------------------------ store

\* one device's database connection: its tables, read and written in place
Conn(d) ==
    [vaults |-> vaults[d], items |-> items[d], seq |-> seq[d],
     settings |-> settings[d], entropy |-> entropy]

\* the same connection in a world w (a record of the variables)
ConnIn(w, d) ==
    [vaults |-> w.vaults[d], items |-> w.items[d], seq |-> w.seq[d],
     settings |-> w.settings[d], entropy |-> w.entropy]

EmptyDb ==
    [vaults |-> {}, items |-> {}, seq |-> [v |-> 0, i |-> 0],
     settings |-> [sync_folder |-> None, last_sync_at |-> None,
                   last_sync_device |-> None,
                   purge_deleted_after_days |-> None],
     entropy |-> 0]

\* UPDATE vaults SET updated_at = t WHERE id = vault_id
TouchVault(vs, vault_id, t) ==
    {IF v.id = vault_id THEN [v EXCEPT !.updated_at = t] ELSE v : v \in vs}

Vault_get_by_uuid(db, uuid) == {v \in db.vaults : v.uuid = uuid}

Vault_get_by_id(db, vault_id) == {v \in db.vaults : v.id = vault_id}

VaultItem_get_by_uuid(db, uuid) == {i \in db.items : i.uuid = uuid}

VaultItem_get_by_id(db, item_id) == {i \in db.items : i.id = item_id}

\* SELECT vault_id FROM vault_items WHERE id = item_id  (.ok())
OwnerOf(db, item_id) == {i.vault_id : i \in VaultItem_get_by_id(db, item_id)}

TouchOwner(db, item_id, t) ==
    {IF v.id \in OwnerOf(db, item_id) THEN [v EXCEPT !.updated_at = t] ELSE v
        : v \in db.vaults}

create_vault(db, t, name, password, has_password) ==
    LET should == has_password /\ password # ""
        id == db.seq.v + 1
        new_uuid == db.entropy + 1
        key == derive_key_from_password(password, ToString(id))
        enc == IF should
               THEN Some(encrypt_password(key, password, db.entropy + 2))
               ELSE None
        row == [id |-> id, name |-> name, encrypted_password |-> enc,
                created_at |-> t, cover_image |-> None,
                has_password |-> should, uuid |-> new_uuid,
                updated_at |-> t, deleted_at |-> None]
    IN  [db EXCEPT !.vaults = @ \cup {row},
                   !.seq.v = id,
                   !.entropy = IF should THEN @ + 2 ELSE @ + 1]

\* create_vault up to its INSERT: the row holds the empty payload, and the
\* UPDATE that stores the payload of a protected vault has not run
create_vault_insert(db, t, name, password, has_password) ==
    LET should == has_password /\ password # ""
        id == db.seq.v + 1
        new_uuid == db.entropy + 1
        row == [id |-> id, name |-> name, encrypted_password |-> None,
                created_at |-> t, cover_image |-> None,
                has_password |-> should, uuid |-> new_uuid,
                updated_at |-> t, deleted_at |-> None]
    IN  [db EXCEPT !.vaults = @ \cup {row},
                   !.seq.v = id,
                   !.entropy = @ + 1]

VaultItem_insert(db, t, vault_id, title, content, key) ==
    LET id == db.seq.i + 1
        row == [id |-> id, vault_id |-> vault_id, title |-> title,
                content |-> encrypt_content(key, content, db.entropy + 1),
                created_at |-> t, updated_at |-> t, image |-> None,
                summary |-> None, sort_order |-> None,
                uuid |-> db.entropy + 2, deleted_at |-> None]
    IN  [db EXCEPT !.items = @ \cup {row},
                   !.seq.i = id,
                   !.entropy = @ + 2,
                   !.vaults = TouchVault(@, vault_id, t)]

\* List non-deleted vaults
Vault_list(db) == {v \in db.vaults : IsNone(v.deleted_at)}

\* a soft delete that stamps the items already tombstoned again
Vault_delete_restamp(db, t, vault_id) ==
    [db EXCEPT
        !.items = {IF i.vault_id = vault_id
                   THEN [i EXCEPT !.deleted_at = Some(t)] ELSE i : i \in @},
        !.vaults = {IF v.id = vault_id
                    THEN [v EXCEPT !.deleted_at = Some(t), !.updated_at = t]
                    ELSE v : v \in @}]

\* Soft delete a vault and all its items
Vault_delete(db, t, vault_id) ==
    [db EXCEPT
        !.items = {IF i.vault_id = vault_id /\ IsNone(i.deleted_at)
                   THEN [i EXCEPT !.deleted_at = Some(t)] ELSE i : i \in @},
        !.vaults = {IF v.id = vault_id
                    THEN [v EXCEPT !.deleted_at = Some(t), !.updated_at = t]
                    ELSE v : v \in @}]

Vault_rename(db, t, vault_id, name) ==
    [db EXCEPT
        !.vaults = {IF v.id = vault_id
                    THEN [v EXCEPT !.name = name, !.updated_at = t]
                    ELSE v : v \in @}]

Vault_update_cover_image(db, t, vault_id, cover_image) ==
    [db EXCEPT
        !.vaults = {IF v.id = vault_id
                    THEN [v EXCEPT !.cover_image = cover_image, !.updated_at = t]
                    ELSE v : v \in @}]

\* Soft delete an item
VaultItem_delete(db, t, item_id) ==
    [db EXCEPT
        !.items = {IF i.id = item_id /\ IsNone(i.deleted_at)
                   THEN [i EXCEPT !.deleted_at = Some(t), !.updated_at = t]
                   ELSE i : i \in @},
        !.vaults = TouchOwner(db, item_id, t)]

VaultItem_update_title(db, t, item_id, title) ==
    [db EXCEPT
        !.items = {IF i.id = item_id
                   THEN [i EXCEPT !.title = title, !.updated_at = t]
                   ELSE i : i \in @},
        !.vaults = TouchOwner(db, item_id, t)]

VaultItem_update_summary(db, t, item_id, summary) ==
    [db EXCEPT
        !.items = {IF i.id = item_id
                   THEN [i EXCEPT !.summary = Some(summary), !.updated_at = t]
                   ELSE i : i \in @},
        !.vaults = TouchOwner(db, item_id, t)]

VaultItem_update_image(db, t, item_id, image) ==
    [db EXCEPT
        !.items = {IF i.id = item_id
                   THEN [i EXCEPT !.image = image, !.updated_at = t]
                   ELSE i : i \in @},
        !.vaults = TouchOwner(db, item_id, t)]

VaultItem_update_content(db, t, item_id, content, key) ==
    [db EXCEPT
        !.items = {IF i.id = item_id
                   THEN [i EXCEPT
                           !.content = encrypt_content(key, content, db.entropy + 1),
                           !.updated_at = t]
                   ELSE i : i \in @},
        !.entropy = @ + 1,
        !.vaults = TouchOwner(db, item_id, t)]

\* a reorder that stamps the rows it is given and leaves their sort_order
VaultItem_update_order_touch(db, t, vault_id, ordered_ids) ==
    LET listed(i) == \E k \in 1..Len(ordered_ids) : ordered_ids[k] = i.id
    IN  [db EXCEPT
            !.items = {IF listed(i) /\ i.vault_id = vault_id
                       THEN [i EXCEPT !.updated_at = t]
                       ELSE i : i \in @},
            !.vaults = TouchVault(@, vault_id, t)]

\* ordered_ids is a sequence of item ids; position idx (from 0) becomes sort_order
VaultItem_update_order(db, t, vault_id, ordered_ids) ==
    LET pos(id) == CHOOSE k \in 1..Len(ordered_ids) :
                       /\ ordered_ids[k] = id
                       /\ \A j \in (k+1)..Len(ordered_ids) : ordered_ids[j] # id
        listed(i) == \E k \in 1..Len(ordered_ids) : ordered_ids[k] = i.id
    IN  [db EXCEPT
            !.items = {IF listed(i) /\ i.vault_id = vault_id
                       THEN [i EXCEPT !.sort_order = Some(pos(i.id) - 1),
                                      !.updated_at = t]
                       ELSE i : i \in @},
            !.vaults = TouchVault(@, vault_id, t)]

VaultItem_move_to_vault(db, t, item_id, target_vault_id) ==
    [db EXCEPT
        !.items = {IF i.id = item_id
                   THEN [i EXCEPT !.vault_id = target_vault_id,
                                  !.sort_order = None, !.updated_at = t]
                   ELSE i : i \in @},
        !.vaults = TouchVault(TouchOwner(db, item_id, t), target_vault_id, t)]

\* ------------------------------------------------------------ ordered reads

\* ORDER BY created_at DESC (rows of equal created_at in rowid order)
VaultBefore(a, b) ==
    \/ a.created_at > b.created_at
    \/ a.created_at = b.created_at /\ a.id < b.id

\* ORDER BY CASE WHEN sort_order IS NULL THEN 1 ELSE 0 END, sort_order ASC,
\* created_at DESC (rows equal in all three in rowid order)
ItemBefore(a, b) ==
    LET na == IsNone(a.sort_order)
        nb == IsNone(b.sort_order)
    IN  \/ ~na /\ nb
        \/ ~na /\ ~nb /\ a.sort_order[1] < b.sort_order[1]
        \/ /\ na = nb
           /\ na \/ a.sort_order[1] = b.sort_order[1]
           /\ \/ a.created_at > b.created_at
              \/ a.created_at = b.created_at /\ a.id < b.id

RECURSIVE OrderVaults(_)
OrderVaults(S) ==
    IF S = {} THEN <<>>
    ELSE Bind(CHOOSE x \in S : \A y \in S \ {x} : VaultBefore(x, y),
              LAMBDA x : <<x>> \o OrderVaults(S \ {x}))

RECURSIVE OrderItems(_)
OrderItems(S) ==
    IF S = {} THEN <<>>
    ELSE Bind(CHOOSE x \in S : \A y \in S \ {x} : ItemBefore(x, y),
              LAMBDA x : <<x>> \o OrderItems(S \ {x}))

\* Fetch all vaults including soft-deleted ones (for sync)
Vault_list_all_for_sync(db) == OrderVaults(db.vaults)

\* List non-deleted items in a vault
VaultItem_list_by_vault(db, vault_id) ==
    OrderItems({i \in db.items : i.vault_id = vault_id /\ IsNone(i.deleted_at)})

\* a sync listing that leaves the soft-deleted items out
VaultItem_list_live_by_vault_for_sync(db, vault_id) ==
    OrderItems({i \in db.items : i.vault_id = vault_id /\ IsNone(i.deleted_at)})

\* List all items in a vault including soft-deleted ones (for sync)
VaultItem_list_all_by_vault_for_sync(db, vault_id) ==
    OrderItems({i \in db.items : i.vault_id = vault_id})

\* ------------------------------------------------------------------ export

SYNC_FORMAT_VERSION == "1.0"

\* key_vec.len(): a derived key has 32 bytes, any other value does not
KeyLen(key_vec) == IF Len(key_vec) = 2 THEN 32 ELSE 16

\* how sync_export treats one vault: "export", or the reason it is skipped
ExportKeyStatus(vault, passwords) ==
    IF vault.has_password
    THEN IF vault.id \in DOMAIN passwords
         THEN IF KeyLen(passwords[vault.id]) = 32 THEN "export" ELSE "bad_len"
         ELSE "absent"
    ELSE "export"

ExportKey(vault, passwords) ==
    IF vault.has_password THEN passwords[vault.id]
    ELSE derive_key_from_password("", ToString(vault.id))

\* the plaintext written for one item row: Err (None) aborts the export
ExportContent(vault, key, item) ==
    IF vault.has_password
    THEN decrypt_content(key, item.content)
    ELSE IF IsSome(decrypt_content(key, item.content))
         THEN decrypt_content(key, item.content)
         ELSE Some(from_utf8_lossy(item.content))

ExportItem(vault, key, item) ==
    [uuid |-> item.uuid, title |-> item.title,
     content |-> ExportContent(vault, key, item)[1],
     created_at |-> item.created_at, updated_at |-> item.updated_at,
     deleted_at |-> item.deleted_at, image |-> item.image,
     summary |-> item.summary, sort_order |-> item.sort_order]

ExportVault(db, vault, passwords) ==
    LET key == ExportKey(vault, passwords)
    IN  Bind(VaultItem_list_all_by_vault_for_sync(db, vault.id), LAMBDA its :
        [uuid |-> vault.uuid, name |-> vault.name,
         created_at |-> vault.created_at, updated_at |-> vault.updated_at,
         deleted_at |-> vault.deleted_at, cover_image |-> vault.cover_image,
         has_password |-> vault.has_password,
         items |-> [k \in 1..Len(its) |-> ExportItem(vault, key, its[k])]])

\* decrypt_content(&key, &item.content)? fails for some row of the vault
ExportFails(db, vault, passwords) ==
    /\ ExportKeyStatus(vault, passwords) = "export"
    /\ \E i \in db.items :
          /\ i.vault_id = vault.id
          /\ IsNone(ExportContent(vault, ExportKey(vault, passwords), i))

SkipWarning(vault, passwords) ==
    IF ExportKeyStatus(vault, passwords) = "bad_len"
    THEN "Skipped vault '" \o vault.name \o "': invalid key length"
    ELSE "Skipped vault '" \o vault.name \o "': password required but not provided"

\* Get sync folder path from settings
get_sync_folder(db) == db.settings.sync_folder

\* Set sync folder path in settings
set_sync_folder(db, path) == [db EXCEPT !.settings.sync_folder = Some(path)]

\* a recording of the time of the sync that forgets the device
SetLastSync_time_only(db, t, device_name) ==
    [db EXCEPT !.settings.last_sync_at = Some(t)]

\* "Update last_sync_at": SyncSettings::set of last_sync_at, then of
\* last_sync_device
SetLastSync(db, t, device_name) ==
    [db EXCEPT !.settings.last_sync_at = Some(t),
               !.settings.last_sync_device = Some(device_name)]

\* Export all vaults to the sync folder.  passwords: vault id -> key.
\* The result carries the connection as the call leaves it and the file written.
sync_export(db, t, device_name, passwords) ==
    Bind(Vault_list_all_for_sync(db), LAMBDA vs :
    LET exported == SelectSeq(vs, LAMBDA v : ExportKeyStatus(v, passwords) = "export")
        skipped == SelectSeq(vs, LAMBDA v : ExportKeyStatus(v, passwords) # "export")
        failed == \E k \in 1..Len(vs) : ExportFails(db, vs[k], passwords)
        sync_vaults == [k \in 1..Len(exported) |-> ExportVault(db, exported[k], passwords)]
        sync_file == [format_version |-> SYNC_FORMAT_VERSION,
                      device_name |-> device_name, exported_at |-> t,
                      vaults |-> sync_vaults, captures |-> <<>>]
    IN  IF IsNone(get_sync_folder(db)) \/ failed
        THEN [ok |-> FALSE, db |-> db, file |-> None,
              exported_vaults |-> 0, exported_items |-> 0,
              skipped_vaults |-> <<>>, warnings |-> <<>>]
        ELSE [ok |-> TRUE,
              db |-> SetLastSync(db, t, device_name),
              file |-> Some(sync_file),
              exported_vaults |-> Len(sync_vaults),
              exported_items |-> Cardinality({i \in db.items :
                                    \E k \in 1..Len(exported) : exported[k].id = i.vault_id}),
              skipped_vaults |-> [k \in 1..Len(skipped) |-> skipped[k].name],
              warnings |-> [k \in 1..Len(skipped) |-> SkipWarning(skipped[k], passwords)]])

\* ------------------------------------------------------------------ import

\* serde_json::from_str::<SyncFile>: contents that lack a field of SyncFile do
\* not parse
serde_json_from_str(contents) ==
    IF {"format_version", "device_name", "exported_at", "vaults", "captures"}
          \subseteq DOMAIN contents
    THEN Some(contents)
    ELSE None

\* INSERT INTO vault_items (...) VALUES (...): a row with the next rowid
InsertItemRow(db, vault_id, title, content, key, sync_item, uuid, nonce) ==
    [id |-> db.seq.i + 1, vault_id |-> vault_id, title |-> title,
     content |-> encrypt_content(key, content, nonce),
     created_at |-> sync_item.created_at, updated_at |-> sync_item.updated_at,
     image |-> sync_item.image, summary |-> sync_item.summary,
     sort_order |-> sync_item.sort_order, uuid |-> uuid, deleted_at |-> None]

\* a conflict rule that looks for a remote newer than the local version
is_conflict_remote_newer(local_updated_at, remote_updated_at, last_sync_at) ==
    IF IsSome(last_sync_at)
    THEN /\ local_updated_at > last_sync_at[1]
         /\ remote_updated_at > local_updated_at
    ELSE FALSE

\* a conflict rule that does not look at the last sync
is_conflict_any(local_updated_at, remote_updated_at, last_sync_at) ==
    local_updated_at # remote_updated_at

\* a conflict rule that takes a device that never synced for one that has
\* changed everything since
is_conflict_never_synced(local_updated_at, remote_updated_at, last_sync_at) ==
    IF IsSome(last_sync_at)
    THEN /\ local_updated_at > last_sync_at[1]
         /\ remote_updated_at > last_sync_at[1]
         /\ local_updated_at # remote_updated_at
    ELSE local_updated_at # remote_updated_at

\* both modified since last sync
is_conflict(local_updated_at, remote_updated_at, last_sync_at) ==
    IF IsSome(last_sync_at)
    THEN /\ local_updated_at > last_sync_at[1]
         /\ remote_updated_at > last_sync_at[1]
         /\ local_updated_at # remote_updated_at
    ELSE FALSE

\* a remote delete that only takes the remote timestamp
ApplyRemoteDelete_touch(db, existing_item, sync_item) ==
    [db EXCEPT !.items =
        {IF i.id = existing_item.id
         THEN [i EXCEPT !.updated_at = sync_item.updated_at]
         ELSE i : i \in @}]

\* "Remote is deleted, apply locally": UPDATE vault_items SET deleted_at, updated_at
ApplyRemoteDelete(db, existing_item, sync_item) ==
    [db EXCEPT !.items =
        {IF i.id = existing_item.id
         THEN [i EXCEPT !.deleted_at = sync_item.deleted_at,
                        !.updated_at = sync_item.updated_at]
         ELSE i : i \in @}]

\* "Create conflict copy": the remote version under a new uuid
InsertConflictCopy_same_uuid(db, vault_id, sync_item, key) ==
    [db EXCEPT
       !.items = @ \cup
           {InsertItemRow(db, vault_id, sync_item.title \o " [Conflict]",
                          sync_item.content, key, sync_item,
                          sync_item.uuid, db.entropy + 1)},
       !.seq.i = @ + 1,
       !.entropy = @ + 1]

InsertConflictCopy(db, vault_id, sync_item, key) ==
    [db EXCEPT
       !.items = @ \cup
           {InsertItemRow(db, vault_id, sync_item.title \o " [Conflict]",
                          sync_item.content, key, sync_item,
                          db.entropy + 2, db.entropy + 1)},
       !.seq.i = @ + 1,
       !.entropy = @ + 2]

\* an update that leaves the summary as it was
UpdateWithRemote_keep_summary(db, existing_item, sync_item, key) ==
    [db EXCEPT
       !.items =
           {IF i.id = existing_item.id
            THEN [i EXCEPT
                    !.title = sync_item.title,
                    !.content = encrypt_content(key, sync_item.content,
                                                db.entropy + 1),
                    !.updated_at = sync_item.updated_at,
                    !.image = sync_item.image,
                    !.sort_order = sync_item.sort_order]
            ELSE i : i \in @},
       !.entropy = @ + 1]

\* "Update with remote content": UPDATE vault_items SET title, content,
\* updated_at, image, summary, sort_order
UpdateWithRemote(db, existing_item, sync_item, key) ==
    [db EXCEPT
       !.items =
           {IF i.id = existing_item.id
            THEN [i EXCEPT
                    !.title = sync_item.title,
                    !.content = encrypt_content(key, sync_item.content,
                                                db.entropy + 1),
                    !.updated_at = sync_item.updated_at,
                    !.image = sync_item.image,
                    !.summary = sync_item.summary,
                    !.sort_order = sync_item.sort_order]
            ELSE i : i \in @},
       !.entropy = @ + 1]

\* a new item given a uuid of the importing device
InsertNewItem_fresh_uuid(db, vault_id, sync_item, key) ==
    [db EXCEPT
       !.items = @ \cup
           {InsertItemRow(db, vault_id, sync_item.title, sync_item.content, key,
                          sync_item, db.entropy + 2, db.entropy + 1)},
       !.seq.i = @ + 1,
       !.entropy = @ + 2]

\* "New item": the remote version under its own uuid
InsertNewItem(db, vault_id, sync_item, key) ==
    [db EXCEPT
       !.items = @ \cup
           {InsertItemRow(db, vault_id, sync_item.title, sync_item.content, key,
                          sync_item, sync_item.uuid, db.entropy + 1)},
       !.seq.i = @ + 1,
       !.entropy = @ + 1]

\* a remote version as new as the local one counted as newer
remote_is_newer_or_same(remote_updated_at, local_updated_at) ==
    remote_updated_at >= local_updated_at

\* "Check if remote is newer": *remote_updated_at > local_updated_at
remote_is_newer(remote_updated_at, local_updated_at) ==
    remote_updated_at > local_updated_at

\* no tombstone of an unknown item is ignored
ignore_unknown_tombstone_never(sync_item) == FALSE

\* "Don't import deleted items that don't exist locally"
ignore_unknown_tombstone(sync_item) == IsSome(sync_item.deleted_at)

\* Import a single item, handling merge logic.  The result carries the
\* connection as the call leaves it and the ImportItemResult.
import_item(db, vault_id, sync_item, key, last_sync_at) ==
    LET found == VaultItem_get_by_uuid(db, sync_item.uuid)
        existing_item == CHOOSE i \in found : TRUE
        same(r) == [db |-> db, result |-> r]
    IN
    IF found # {}
    THEN IF IsSome(sync_item.deleted_at) /\ IsNone(existing_item.deleted_at)
         THEN [db |-> ApplyRemoteDelete(db, existing_item, sync_item),
               result |-> <<"Deleted">>]
         ELSE IF IsSome(sync_item.deleted_at)
         THEN same(<<"Skipped">>)
         ELSE IF is_conflict(existing_item.updated_at, sync_item.updated_at, last_sync_at)
         THEN [db |-> InsertConflictCopy(db, vault_id, sync_item, key),
               result |-> <<"Conflict", sync_item.title>>]
         ELSE IF remote_is_newer(sync_item.updated_at, existing_item.updated_at)
         THEN [db |-> UpdateWithRemote(db, existing_item, sync_item, key),
               result |-> <<"Updated">>]
         ELSE same(<<"Skipped">>)
    ELSE IF ignore_unknown_tombstone(sync_item)
         THEN same(<<"Skipped">>)
         ELSE [db |-> InsertNewItem(db, vault_id, sync_item, key),
               result |-> <<"Imported">>]

\* the running state of one sync_import call: the connection, the counters of
\* SyncImportResult, whether a statement has failed (the call returns Err
\* there, keeping what it wrote), the import_item calls made so far and the
\* sync vaults met so far, each with the tables before and after it
ImportStart(db) ==
    [db |-> db, ok |-> TRUE, imported_vaults |-> 0, imported_items |-> 0,
     conflicts |-> <<>>, warnings |-> <<>>, skipped_vaults |-> <<>>,
     calls |-> <<>>, met |-> <<>>]

\* one pass of "for sync_item in &sync_vault.items" over an existing vault
RECURSIVE ImportItems(_, _, _, _, _, _)
ImportItems(st, vault_id, sync_items, k, local_key, last_sync_at) ==
    IF k > Len(sync_items) THEN st
    ELSE Bind(import_item(st.db, vault_id, sync_items[k], local_key, last_sync_at),
              LAMBDA r :
         LET call == [vault_id |-> vault_id, item |-> sync_items[k],
                      key |-> local_key, last_sync_at |-> last_sync_at,
                      before |-> st.db.items, after |-> r.db.items,
                      vaults_before |-> st.db.vaults,
                      vaults_after |-> r.db.vaults,
                      result |-> r.result]
         IN  Bind([st EXCEPT
                     !.db = r.db,
                     !.calls = Append(@, call),
                     !.imported_items =
                         IF r.result[1] = "Skipped" THEN @ ELSE @ + 1,
                     !.conflicts =
                         IF r.result[1] = "Conflict" THEN Append(@, r.result[2])
                         ELSE @],
                  LAMBDA st1 : ImportItems(st1, vault_id, sync_items, k + 1,
                                           local_key, last_sync_at)))

\* "Import all items" of a vault just created: plain INSERTs; an INSERT whose
\* uuid is already in vault_items fails on idx_vault_items_uuid and the call
\* returns that error
RECURSIVE ImportNewItems(_, _, _, _, _)
ImportNewItems(st, vault_id, sync_items, k, final_key) ==
    IF k > Len(sync_items) \/ ~st.ok THEN st
    ELSE LET si == sync_items[k]
             st1 == IF IsSome(si.deleted_at) THEN st
                    ELSE IF VaultItem_get_by_uuid(st.db, si.uuid) # {}
                    THEN [st EXCEPT !.ok = FALSE, !.db.entropy = @ + 1]
                    ELSE [st EXCEPT
                            !.db.items = @ \cup
                                {InsertItemRow(st.db, vault_id, si.title, si.content,
                                               final_key, si, si.uuid,
                                               st.db.entropy + 1)},
                            !.db.seq.i = @ + 1,
                            !.db.entropy = @ + 1,
                            !.imported_items = @ + 1]
         IN  Bind(st1, LAMBDA s : ImportNewItems(s, vault_id, sync_items, k + 1,
                                                 final_key))

\* a vault tombstone applied to the vault row alone
ApplyRemoteVaultDelete_row(st, t, sync_vault, existing_vault) ==
    [st EXCEPT
       !.db.vaults = {IF v.id = existing_vault.id
                      THEN [v EXCEPT !.deleted_at = sync_vault.deleted_at,
                                     !.updated_at = t]
                      ELSE v : v \in @},
       !.imported_vaults = @ + 1]

\* "Remote is deleted, apply locally" and "Also soft-delete all items"
ApplyRemoteVaultDelete(st, t, sync_vault, existing_vault) ==
    [st EXCEPT
       !.db.vaults = {IF v.id = existing_vault.id
                      THEN [v EXCEPT !.deleted_at = sync_vault.deleted_at,
                                     !.updated_at = t]
                      ELSE v : v \in @},
       !.db.items = {IF i.vault_id = existing_vault.id /\ IsNone(i.deleted_at)
                     THEN [i EXCEPT !.deleted_at = sync_vault.deleted_at]
                     ELSE i : i \in @},
       !.imported_vaults = @ + 1]

\* a metadata update that takes the remote name alone
UpdateVaultMetadata_name(st, sync_vault, existing_vault) ==
    [st EXCEPT
       !.db.vaults = {IF v.id = existing_vault.id
                      THEN [v EXCEPT !.name = sync_vault.name]
                      ELSE v : v \in @},
       !.imported_vaults = @ + 1]

\* "Update vault metadata"
UpdateVaultMetadata(st, sync_vault, existing_vault) ==
    [st EXCEPT
       !.db.vaults = {IF v.id = existing_vault.id
                      THEN [v EXCEPT !.name = sync_vault.name,
                                     !.cover_image = sync_vault.cover_image,
                                     !.updated_at = sync_vault.updated_at]
                      ELSE v : v \in @},
       !.imported_vaults = @ + 1]

\* a skip that leaves no trace in the result
SkipExistingVault_silent(st, sync_vault) == st

\* "Get local key for re-encryption", no password given: skip the vault
SkipExistingVault(st, sync_vault) ==
    [st EXCEPT
       !.skipped_vaults = Append(@, sync_vault.name),
       !.warnings = Append(@, "Skipped vault '" \o sync_vault.name
                      \o "': password required but not provided")]

\* the arm "Some(existing_vault)" of the match on the local vault
ImportExistingVault(st, t, sync_vault, existing_vault, passwords, last_sync_at) ==
    IF IsSome(sync_vault.deleted_at) /\ IsNone(existing_vault.deleted_at)
    THEN ApplyRemoteVaultDelete(st, t, sync_vault, existing_vault)
    ELSE LET newer == sync_vault.updated_at > existing_vault.updated_at
             st1 == IF newer
                    THEN UpdateVaultMetadata(st, sync_vault, existing_vault)
                    ELSE st
             has_pwd == sync_vault.uuid \in DOMAIN passwords
             local_key ==
                 IF existing_vault.has_password
                 THEN derive_key_from_password(passwords[sync_vault.uuid],
                                               ToString(existing_vault.id))
                 ELSE derive_key_from_password("", ToString(existing_vault.id))
         IN  IF existing_vault.has_password /\ ~has_pwd
             THEN SkipExistingVault(st1, sync_vault)
             ELSE Bind(st1, LAMBDA s : ImportItems(s, existing_vault.id,
                                                   sync_vault.items, 1,
                                                   local_key, last_sync_at))

\* "Insert new vault", "Re-derive key with actual vault ID", "Import all items"
InsertNewVault(st, t, sync_vault, passwords) ==
    LET vault_id == st.db.seq.v + 1
        pwd == IF sync_vault.has_password THEN passwords[sync_vault.uuid] ELSE ""
        final_key == derive_key_from_password(pwd, ToString(vault_id))
        \* the payload first written under the key salted with temp_id is
        \* replaced, in the same call, by the one under final_key
        enc == IF sync_vault.has_password
               THEN Some(encrypt_password(final_key, pwd, st.db.entropy + 2))
               ELSE None
        row == [id |-> vault_id, name |-> sync_vault.name,
                encrypted_password |-> enc,
                created_at |-> sync_vault.created_at,
                cover_image |-> sync_vault.cover_image,
                has_password |-> sync_vault.has_password,
                uuid |-> sync_vault.uuid, updated_at |-> t,
                deleted_at |-> None]
        st1 == [st EXCEPT
                  !.db.vaults = @ \cup {row},
                  !.db.seq.v = vault_id,
                  !.db.entropy = IF sync_vault.has_password THEN @ + 2 ELSE @,
                  !.imported_vaults = @ + 1]
    IN  Bind(st1, LAMBDA s : ImportNewItems(s, vault_id, sync_vault.items, 1,
                                            final_key))

\* "Insert new vault" alone, for a protected vault whose password is in the
\* map: the row holds the payload sealed under the key salted with temp_id,
\* and the UPDATE that re-seals it under the key of the rowid has not run
InsertNewVaultRow(st, t, sync_vault, passwords) ==
    LET vault_id == st.db.seq.v + 1
        pwd == passwords[sync_vault.uuid]
        \* now.timestamp_nanos_opt() as the text of a salt: the nanoseconds
        \* of the instant t, a number no rowid reaches
        temp_id == ToString(t) \o "000000000"
        temp_key == derive_key_from_password(pwd, temp_id)
        row == [id |-> vault_id, name |-> sync_vault.name,
                encrypted_password |->
                    Some(encrypt_password(temp_key, pwd, st.db.entropy + 1)),
                created_at |-> sync_vault.created_at,
                cover_image |-> sync_vault.cover_image,
                has_password |-> TRUE,
                uuid |-> sync_vault.uuid, updated_at |-> t,
                deleted_at |-> None]
    IN  [st EXCEPT
           !.db.vaults = @ \cup {row},
           !.db.seq.v = vault_id,
           !.db.entropy = @ + 1]

\* the password a new protected vault needs is not in the map
SkipNewVault(st, sync_vault) ==
    [st EXCEPT
       !.skipped_vaults = Append(@, sync_vault.name),
       !.warnings = Append(@, "Skipped vault '" \o sync_vault.name
                      \o "': password required for new vault")]

\* an arm "None" that does not look at the tombstone of the sync vault
ImportNewVault_any(st, t, sync_vault, passwords) ==
    IF sync_vault.has_password /\ sync_vault.uuid \notin DOMAIN passwords
    THEN SkipNewVault(st, sync_vault)
    ELSE InsertNewVault(st, t, sync_vault, passwords)

\* the arm "None" of the match on the local vault
ImportNewVault(st, t, sync_vault, passwords) ==
    IF IsSome(sync_vault.deleted_at) THEN st
    ELSE IF sync_vault.has_password /\ sync_vault.uuid \notin DOMAIN passwords
    THEN SkipNewVault(st, sync_vault)
    ELSE InsertNewVault(st, t, sync_vault, passwords)

\* "for sync_vault in &sync_file.vaults"
RECURSIVE ImportVaults(_, _, _, _, _, _)
ImportVaults(st, t, sync_vaults, k, passwords, last_sync_at) ==
    IF k > Len(sync_vaults) \/ ~st.ok THEN st
    ELSE LET sv == sync_vaults[k]
             local_vault == Vault_get_by_uuid(st.db, sv.uuid)
             st1 == IF local_vault # {}
                    THEN ImportExistingVault(st, t, sv,
                                             CHOOSE v \in local_vault : TRUE,
                                             passwords, last_sync_at)
                    ELSE ImportNewVault(st, t, sv, passwords)
             seen(s) == [sync_vault |-> sv,
                         has_pwd |-> sv.uuid \in DOMAIN passwords,
                         before |-> [vaults |-> st.db.vaults, items |-> st.db.items,
                                     conflicts |-> st.conflicts,
                                     skipped_vaults |-> st.skipped_vaults,
                                     warnings |-> st.warnings,
                                     imported_vaults |-> st.imported_vaults],
                         after |-> [vaults |-> s.db.vaults, items |-> s.db.items,
                                    conflicts |-> s.conflicts,
                                    skipped_vaults |-> s.skipped_vaults,
                                    warnings |-> s.warnings,
                                    imported_vaults |-> s.imported_vaults],
                         ok |-> s.ok]
         IN  Bind(st1, LAMBDA s :
                ImportVaults([s EXCEPT !.met = Append(@, seen(s))], t, sync_vaults,
                             k + 1, passwords, last_sync_at))

\* a version check that lets every file through
version_unsupported_never(sync_file) == FALSE

\* "Validate format version"
version_unsupported(sync_file) == sync_file.format_version # SYNC_FORMAT_VERSION

\* Import the sync file and merge with the local database.
\* sync_file: Option (the file in the sync folder); passwords: vault uuid -> password.
sync_import(db, t, sync_file, passwords) ==
    IF \/ IsNone(get_sync_folder(db))
       \/ IsNone(sync_file)
       \/ IsNone(serde_json_from_str(sync_file[1]))
       \/ version_unsupported(sync_file[1])
    THEN [ImportStart(db) EXCEPT !.ok = FALSE]
    ELSE Bind(ImportVaults(ImportStart(db), t, sync_file[1].vaults, 1,
                           passwords, db.settings.last_sync_at),
              LAMBDA st :
                IF st.ok
                THEN [st EXCEPT
                        !.db = SetLastSync(@, t, sync_file[1].device_name)]
                ELSE st)

\* sync_import when "Copy captures from sync folder" returns an error (the
\* local captures folder cannot be made): every vault of the file has been
\* merged and stays merged, and "Update last_sync_at" is not reached
sync_import_captures_fail(db, t, sync_file, passwords) ==
    IF \/ IsNone(get_sync_folder(db))
       \/ IsNone(sync_file)
       \/ IsNone(serde_json_from_str(sync_file[1]))
       \/ version_unsupported(sync_file[1])
    THEN [ImportStart(db) EXCEPT !.ok = FALSE]
    ELSE [ImportVaults(ImportStart(db), t, sync_file[1].vaults, 1,
                       passwords, db.settings.last_sync_at)
          EXCEPT !.ok = FALSE]

\* the import as it stands when it has merged the first k - 1 sync vaults
ImportedBefore(db, t, sync_file, passwords, k) ==
    ImportVaults(ImportStart(db), t, SubSeq(sync_file[1].vaults, 1, k - 1), 1,
                 passwords, db.settings.last_sync_at)

\* sync vault k of the file takes the import to "Insert new vault" and then
\* to the UPDATE of the payload: it is protected, no tombstone, not held
\* locally, and its password is in the map
InsertsProtectedVault(db, t, sync_file, passwords, k) ==
    /\ IsSome(get_sync_folder(db))
    /\ IsSome(sync_file)
    /\ IsSome(serde_json_from_str(sync_file[1]))
    /\ ~version_unsupported(sync_file[1])
    /\ k \in 1..Len(sync_file[1].vaults)
    /\ LET sv == sync_file[1].vaults[k]
           st == ImportedBefore(db, t, sync_file, passwords, k)
       IN  /\ st.ok
           /\ Vault_get_by_uuid(st.db, sv.uuid) = {}
           /\ IsNone(sv.deleted_at)
           /\ sv.has_password
           /\ sv.uuid \in DOMAIN passwords

\* sync_import up to the INSERT of the new protected vault k: what it wrote
\* stays, no transaction being open
sync_import_insert(db, t, sync_file, passwords, k) ==
    InsertNewVaultRow(ImportedBefore(db, t, sync_file, passwords, k), t,
                      sync_file[1].vaults[k], passwords).db

\* ------------------------------------------------------------------ status

\* a status that reports changes whenever the sync file reads as a SyncFile
check_sync_status_any_file(db, device_name, sync_file) ==
    LET parsed == IF IsSome(get_sync_folder(db)) /\ IsSome(sync_file)
                  THEN serde_json_from_str(sync_file[1])
                  ELSE None
    IN  [sync_enabled |-> IsSome(get_sync_folder(db)),
         sync_folder |-> get_sync_folder(db),
         device_name |-> device_name,
         last_sync_at |-> db.settings.last_sync_at,
         last_sync_device |-> db.settings.last_sync_device,
         remote_file_exists |-> IsSome(get_sync_folder(db)) /\ IsSome(sync_file),
         remote_exported_at |->
             IF IsSome(parsed) THEN Some(parsed[1].exported_at) ELSE None,
         remote_device_name |->
             IF IsSome(parsed) THEN Some(parsed[1].device_name) ELSE None,
         has_changes |-> IsSome(parsed)]

\* Get sync status information.  sync_file: Option (the file in the sync
\* folder), looked at only when a sync folder is set; always Ok.
check_sync_status(db, device_name, sync_file) ==
    LET sync_folder == get_sync_folder(db)
        last_sync_at == db.settings.last_sync_at
        remote_file_exists == IsSome(sync_folder) /\ IsSome(sync_file)
        parsed == IF remote_file_exists THEN serde_json_from_str(sync_file[1])
                  ELSE None
    IN  [sync_enabled |-> IsSome(sync_folder),
         sync_folder |-> sync_folder,
         device_name |-> device_name,
         last_sync_at |-> last_sync_at,
         last_sync_device |-> db.settings.last_sync_device,
         remote_file_exists |-> remote_file_exists,
         remote_exported_at |->
             IF IsSome(parsed) THEN Some(parsed[1].exported_at) ELSE None,
         remote_device_name |->
             IF IsSome(parsed) THEN Some(parsed[1].device_name) ELSE None,
         has_changes |->
             IF IsSome(parsed)
             THEN IF IsSome(last_sync_at)
                  THEN parsed[1].exported_at > last_sync_at[1]
                  ELSE TRUE
             ELSE FALSE]

\* --------------------------------------------------------------- passwords
\* A Result<(), String> is "Ok" or the text of its error.

\* a verification that accepts any key for a vault that exists
verify_vault_key_open(db, vault_id, key) ==
    IF Vault_get_by_id(db, vault_id) = {} THEN "Vault not found" ELSE "Ok"

\* vault_has_password, then the stored payload opened with the key
verify_vault_key(db, vault_id, key) ==
    IF Vault_get_by_id(db, vault_id) = {} THEN "Vault not found"
    ELSE LET v == CHOOSE v \in Vault_get_by_id(db, vault_id) : TRUE
         IN  IF ~v.has_password THEN "Ok"
             ELSE IF /\ IsSome(v.encrypted_password)
                     /\ IsSome(decrypt_content(key, v.encrypted_password[1]))
                  THEN "Ok"
                  ELSE "Invalid password"

\* a connection that keeps the writes of a transaction it did not commit
EndTransaction_autocommit(before, after, committed) == after

\* the rows a connection leaves when it is closed: those written if the
\* transaction it began was committed, those before BEGIN IMMEDIATE if it was
\* rolled back or left open; a nonce drawn is drawn either way
EndTransaction(before, after, committed) ==
    IF committed THEN after ELSE [before EXCEPT !.entropy = after.entropy]

\* Get all items for this vault: VaultItem::list_by_vault
ItemsToReencrypt(db, vault_id) == VaultItem_list_by_vault(db, vault_id)

\* Re-encrypt each item, from the k-th on: decrypt with the old key, encrypt
\* with the new key under a fresh nonce, UPDATE the row; the first item that
\* does not decrypt ends the loop with its error
RECURSIVE ReencryptItems(_, _, _, _, _, _)
ReencryptItems(db, t, its, k, old_key, new_key) ==
    IF k > Len(its) THEN [db |-> db, err |-> "Ok"]
    ELSE LET plaintext == decrypt_content(old_key, its[k].content)
         IN  IF IsNone(plaintext) THEN [db |-> db, err |-> "Decryption failed"]
             ELSE ReencryptItems(
                      [db EXCEPT
                          !.items = {IF i.id = its[k].id
                                     THEN [i EXCEPT
                                             !.content = encrypt_content(
                                                 new_key, plaintext[1],
                                                 db.entropy + 1),
                                             !.updated_at = t]
                                     ELSE i : i \in @},
                          !.entropy = @ + 1],
                      t, its, k + 1, old_key, new_key)

\* Change vault password: re-encrypts all items with the new key.  If
\* new_has_password is Some(FALSE), or the new password is empty, the vault
\* has its password protection removed.
change_vault_password(db, t, vault_id, old_key, new_password, new_has_password) ==
    LET should_have_password ==
            /\ IF IsSome(new_has_password) THEN new_has_password[1]
               ELSE new_password # ""
            /\ new_password # ""
        new_key == derive_key_from_password(new_password, ToString(vault_id))
        verdict == verify_vault_key(db, vault_id, old_key)
    IN  IF KeyLen(old_key) # 32
        THEN [db |-> db, err |-> "Old key must be 32 bytes"]
        ELSE IF verdict # "Ok" THEN [db |-> db, err |-> verdict]
        ELSE Bind(ReencryptItems(db, t, ItemsToReencrypt(db, vault_id), 1,
                                 old_key, new_key), LAMBDA r :
             IF r.err # "Ok"
             THEN [db |-> EndTransaction(db, r.db, FALSE), err |-> r.err]
             ELSE [db |-> EndTransaction(db,
                      [r.db EXCEPT
                          !.vaults =
                              {IF v.id = vault_id
                               THEN [v EXCEPT
                                       !.encrypted_password =
                                           IF should_have_password
                                           THEN Some(encrypt_password(
                                                    new_key, new_password,
                                                    r.db.entropy + 1))
                                           ELSE None,
                                       !.has_password = should_have_password]
                               ELSE v : v \in @},
                          !.entropy = IF should_have_password THEN @ + 1 ELSE @],
                      TRUE),
                   err |-> "Ok"])

\* ------------------------------------------------------------------- purge

\* a purge whose cutoff takes the rows deleted at the cutoff too
purge_deleted_items_inclusive(db, t, days) ==
    LET cutoff == t - days
        old(r) == IsSome(r.deleted_at) /\ r.deleted_at[1] <= cutoff
        vault_ids == {v.id : v \in {u \in db.vaults : old(u)}}
    IN  [db |-> [db EXCEPT
                   !.items = {i \in @ : ~old(i) /\ i.vault_id \notin vault_ids},
                   !.vaults = {v \in @ : v.id \notin vault_ids}],
         purged_vaults |-> Cardinality(vault_ids),
         purged_items |-> Cardinality({i \in db.items : old(i)})]

\* a purge that deletes the vault rows and leaves the items they still own
purge_deleted_items_vault_rows(db, t, days) ==
    LET cutoff == t - days
        old(r) == IsSome(r.deleted_at) /\ r.deleted_at[1] < cutoff
        vault_ids == {v.id : v \in {u \in db.vaults : old(u)}}
    IN  [db |-> [db EXCEPT
                   !.items = {i \in @ : ~old(i)},
                   !.vaults = {v \in @ : v.id \notin vault_ids}],
         purged_vaults |-> Cardinality(vault_ids),
         purged_items |-> Cardinality({i \in db.items : old(i)})]

\* Purge items and vaults that have been soft-deleted for more than X days:
\* DELETE the items deleted before the cutoff, then the vaults deleted before
\* the cutoff, each with the items it still owns
purge_deleted_items(db, t, days) ==
    LET cutoff == t - days
        old(r) == IsSome(r.deleted_at) /\ r.deleted_at[1] < cutoff
        vault_ids == {v.id : v \in {u \in db.vaults : old(u)}}
    IN  [db |-> [db EXCEPT
                   !.items = {i \in @ : ~old(i) /\ i.vault_id \notin vault_ids},
                   !.vaults = {v \in @ : v.id \notin vault_ids}],
         purged_vaults |-> Cardinality(vault_ids),
         purged_items |-> Cardinality({i \in db.items : old(i)})]

\* days_str.parse::<i32>(): Ok(n) for the decimal text of n, Err (None) for
\* any other text
parse_i32(days_str) ==
    IF \E n \in 0..99 : ToString(n) = days_str
    THEN Some(CHOOSE n \in 0..99 : ToString(n) = days_str)
    ELSE None

\* Get the configured purge days (default 30): Ok(days), or None for
\* Err("Invalid purge days value")
get_purge_days(db) ==
    IF IsSome(db.settings.purge_deleted_after_days)
    THEN parse_i32(db.settings.purge_deleted_after_days[1])
    ELSE Some(30)

\* Set a sync setting: INSERT OR REPLACE INTO sync_settings (key, value)
set_sync_setting(db, key, value) == [db EXCEPT !.settings[key] = Some(value)]

\* an auto-purge that does not look at the sync folder
should_auto_purge_always(db) == TRUE

\* Check if sync is enabled and auto-purge should run
should_auto_purge(db) == IsSome(get_sync_folder(db))

\* Run auto-purge if sync is enabled: ret is Some(PurgeResult) or None
auto_purge_if_enabled(db, t) ==
    IF should_auto_purge(db)
    THEN IF IsNone(get_purge_days(db))
         THEN [db |-> db, ok |-> FALSE, ret |-> None]
         ELSE Bind(purge_deleted_items(db, t, get_purge_days(db)[1]), LAMBDA r :
                  [db |-> r.db, ok |-> TRUE,
                   ret |-> Some([purged_vaults |-> r.purged_vaults,
                                 purged_items |-> r.purged_items])])
    ELSE [db |-> db, ok |-> TRUE, ret |-> None]

\* ---------------------------------------------------------------- handlers
\* Each handler is a function from the world before the call to the world after.

World ==
    [vaults |-> vaults, items |-> items, seq |-> seq, settings |-> settings,
     file |-> file, now |-> now, entropy |-> entropy, res |-> res,
     held |-> held]

\* the world after a handler of device d has left its connection as db
Commit(w, d, db, r) ==
    Bind(db, LAMBDA c :
        [w EXCEPT !.vaults[d] = c.vaults, !.items[d] = c.items,
                  !.seq[d] = c.seq, !.settings[d] = c.settings,
                  !.entropy = c.entropy, !.now = @ + 1, !.res = r,
                  !.held[d] = @ \cup {i.content.pt : i \in c.items}])

\* the password a protected vault was locked with (what its payload encrypts)
PasswordOf(v) ==
    IF v.has_password /\ IsSome(v.encrypted_password)
    THEN v.encrypted_password[1].pt
    ELSE ""

\* the key the frontend holds for a vault its user has unlocked
RightKey(v) == VaultKey(PasswordOf(v), v.id)

\* what a user types is a text not typed before
NewText(kind, d, t) == kind \o d \o ToString(t)

Password == "pw"

WrongPassword == "bad"

LocalRes(op, d, arg) == [op |-> op, dev |-> d, ok |-> TRUE, arg |-> arg]

\* items the user interface shows: live items of live vaults
Visible(db) ==
    {i \in db.items : IsNone(i.deleted_at)
                      /\ \E v \in Vault_list(db) : v.id = i.vault_id}

DoCreateVault(w, d, has_password) ==
    Commit(w, d, create_vault(ConnIn(w, d), w.now, NewText("V", d, w.now),
                              Password, has_password),
           LocalRes("create_vault", d, has_password))

\* create_vault of a protected vault ends between its INSERT and its UPDATE
DoCreateVaultInsert(w, d) ==
    Commit(w, d, create_vault_insert(ConnIn(w, d), w.now, NewText("V", d, w.now),
                                     Password, TRUE),
           [op |-> "create_vault", dev |-> d, ok |-> FALSE, arg |-> TRUE])

DoAddItem(w, d, v) ==
    Commit(w, d, VaultItem_insert(ConnIn(w, d), w.now, v.id,
                                  NewText("T", d, w.now), NewText("c", d, w.now),
                                  RightKey(v)),
           LocalRes("add_vault_item", d, v.id))

OwnerKey(db, i) == RightKey(CHOOSE v \in db.vaults : v.id = i.vault_id)

DoUpdateContent(w, d, i) ==
    Commit(w, d, VaultItem_update_content(ConnIn(w, d), w.now, i.id,
                                          NewText("c", d, w.now),
                                          OwnerKey(ConnIn(w, d), i)),
           LocalRes("update_vault_item_content", d, i.id))

DoUpdateTitle(w, d, i) ==
    Commit(w, d, VaultItem_update_title(ConnIn(w, d), w.now, i.id,
                                        NewText("T", d, w.now)),
           LocalRes("update_vault_item_title", d, i.id))

DoUpdateSummary(w, d, i) ==
    Commit(w, d, VaultItem_update_summary(ConnIn(w, d), w.now, i.id,
                                          NewText("s", d, w.now)),
           LocalRes("update_vault_item_summary", d, i.id))

DoUpdateImage(w, d, i) ==
    Commit(w, d, VaultItem_update_image(ConnIn(w, d), w.now, i.id,
                                        Some(NewText("g", d, w.now))),
           LocalRes("update_vault_item_image", d, i.id))

DoUpdateOrder(w, d, vault_id, ordered_ids) ==
    Commit(w, d, VaultItem_update_order(ConnIn(w, d), w.now, vault_id, ordered_ids),
           LocalRes("update_vault_items_order", d, <<vault_id, ordered_ids>>))

DoDeleteItem(w, d, i) ==
    Commit(w, d, VaultItem_delete(ConnIn(w, d), w.now, i.id),
           LocalRes("delete_vault_item", d, i.id))

DoDeleteVault(w, d, v) ==
    Commit(w, d, Vault_delete(ConnIn(w, d), w.now, v.id),
           LocalRes("delete_vault", d, v.id))

DoRenameVault(w, d, v) ==
    Commit(w, d, Vault_rename(ConnIn(w, d), w.now, v.id, NewText("W", d, w.now)),
           LocalRes("rename_vault", d, v.id))

\* purge_deleted_items(Some(days))
DoPurge(w, d, days) ==
    Bind(purge_deleted_items(ConnIn(w, d), w.now, days), LAMBDA r :
        Commit(w, d, r.db,
               [op |-> "purge_deleted_items", dev |-> d, ok |-> TRUE,
                arg |-> days, purged_vaults |-> r.purged_vaults,
                purged_items |-> r.purged_items,
                before |-> [vaults |-> w.vaults[d], items |-> w.items[d]]]))

\* called on app startup
DoAutoPurge(w, d) ==
    Bind(auto_purge_if_enabled(ConnIn(w, d), w.now), LAMBDA r :
        Commit(w, d, r.db,
               [op |-> "auto_purge_if_enabled", dev |-> d, ok |-> r.ok,
                arg |-> <<>>, ret |-> r.ret,
                before |-> [vaults |-> w.vaults[d], items |-> w.items[d]]]))

\* set_sync_setting(key, value); it reads no clock
DoSetSyncSetting(w, d, key, value) ==
    [w EXCEPT !.settings[d] = set_sync_setting(ConnIn(w, d), key, value).settings,
              !.res = LocalRes("set_sync_setting", d, <<key, value>>)]

\* get_sync_status changes nothing and reads no clock
DoGetSyncStatus(w, d) ==
    [w EXCEPT !.res = [op |-> "get_sync_status", dev |-> d, ok |-> TRUE,
                       arg |-> <<>>,
                       ret |-> check_sync_status(ConnIn(w, d), d, w.file)]]

\* verify_vault_password changes nothing and reads no clock
DoVerifyVaultPassword(w, d, vault_id, key) ==
    Bind(verify_vault_key(ConnIn(w, d), vault_id, key), LAMBDA verdict :
        [w EXCEPT !.res = [op |-> "verify_vault_password", dev |-> d,
                           ok |-> verdict = "Ok", err |-> verdict,
                           arg |-> <<vault_id, key>>]])

DoChangeVaultPassword(w, d, vault_id, old_key, new_password, new_has_password) ==
    Bind(change_vault_password(ConnIn(w, d), w.now, vault_id, old_key,
                               new_password, new_has_password), LAMBDA r :
        Commit(w, d, r.db,
               [op |-> "change_vault_password", dev |-> d, ok |-> r.err = "Ok",
                err |-> r.err,
                arg |-> [vault_id |-> vault_id, old_key |-> old_key,
                         new_password |-> new_password,
                         new_has_password |-> new_has_password],
                before |-> [vaults |-> w.vaults[d], items |-> w.items[d]]]))

\* the one folder both devices can reach
SyncFolder == "shared"

\* set_sync_folder reads no clock
DoSetSyncFolder(w, d) ==
    [w EXCEPT !.settings[d] = set_sync_folder(ConnIn(w, d), SyncFolder).settings,
              !.res = LocalRes("set_sync_folder", d, SyncFolder)]

\* what the sync folder can hold in place of a sync file of this version:
\* bytes that are no SyncFile, or the file as a later version would write it
ForeignFiles(sync_file) ==
    {Some([bytes |-> "garbage"])} \cup
    (IF IsSome(sync_file) /\ IsSome(serde_json_from_str(sync_file[1]))
     THEN {Some([sync_file[1] EXCEPT !.format_version = "2.0"])}
     ELSE {})

\* another program writes the sync file
DoReplaceFile(w, f) ==
    [w EXCEPT !.file = f,
              !.res = [op |-> "file_replaced", dev |-> "A", ok |-> TRUE,
                       arg |-> <<>>]]

DoUpdateVaultCover(w, d, v) ==
    Commit(w, d, Vault_update_cover_image(ConnIn(w, d), w.now, v.id,
                                          Some(NewText("K", d, w.now))),
           LocalRes("update_vault_cover", d, v.id))

DoMoveItem(w, d, i, v) ==
    Commit(w, d, VaultItem_move_to_vault(ConnIn(w, d), w.now, i.id, v.id),
           LocalRes("move_vault_item", d, <<i.id, v.id>>))

\* the keys a user hands to sync_export_vaults: for no vault ("none"), or for
\* every protected vault its key ("right") or a key of another password ("wrong")
ExportPasswords(db, choice) ==
    LET locked == {v \in db.vaults : v.has_password}
    IN  IF choice = "none" THEN [id \in {} |-> <<>>]
        ELSE [id \in {v.id : v \in locked} |->
                LET v == CHOOSE v \in locked : v.id = id
                IN  IF choice = "right" THEN RightKey(v)
                    ELSE VaultKey(PasswordOf(v) \o "?", v.id)]

\* the passwords a user hands to sync_import_vaults, by vault uuid: for a vault
\* the device holds "right" is its password, for a new vault the one chosen
ImportPasswords(db, sync_file, choice) ==
    LET svs == IF IsSome(sync_file) /\ IsSome(serde_json_from_str(sync_file[1]))
               THEN {sync_file[1].vaults[k] : k \in 1..Len(sync_file[1].vaults)}
               ELSE {}
        locked == {sv \in svs : sv.has_password}
        local(u) == {v \in db.vaults : v.uuid = u /\ v.has_password}
    IN  IF choice = "none" THEN [u \in {} |-> ""]
        ELSE [u \in {sv.uuid : sv \in locked} |->
                LET pw == IF local(u) # {}
                          THEN PasswordOf(CHOOSE v \in local(u) : TRUE)
                          ELSE Password
                IN  IF choice = "right" THEN pw ELSE WrongPassword]

DoExport(w, d, choice) ==
    Bind(sync_export(ConnIn(w, d), w.now, d, ExportPasswords(ConnIn(w, d), choice)),
         LAMBDA r :
            [Commit(w, d, r.db,
                    [op |-> "sync_export", dev |-> d, ok |-> r.ok, arg |-> choice,
                     exported_vaults |-> r.exported_vaults,
                     exported_items |-> r.exported_items,
                     skipped_vaults |-> r.skipped_vaults,
                     warnings |-> r.warnings])
             EXCEPT !.file = IF r.ok THEN r.file ELSE @])

DoImport(w, d, choice) ==
    Bind(sync_import(ConnIn(w, d), w.now, w.file,
                     ImportPasswords(ConnIn(w, d), w.file, choice)),
         LAMBDA r :
            Commit(w, d, r.db,
                   [op |-> "sync_import", dev |-> d, ok |-> r.ok, arg |-> choice,
                    imported_vaults |-> r.imported_vaults,
                    imported_items |-> r.imported_items,
                    conflicts |-> r.conflicts,
                    warnings |-> r.warnings,
                    skipped_vaults |-> r.skipped_vaults,
                    calls |-> r.calls, met |-> r.met]))

\* sync_import returns the error of its captures step
DoImportCapturesFail(w, d, choice) ==
    Bind(sync_import_captures_fail(ConnIn(w, d), w.now, w.file,
                                   ImportPasswords(ConnIn(w, d), w.file, choice)),
         LAMBDA r :
            Commit(w, d, r.db,
                   [op |-> "sync_import", dev |-> d, ok |-> r.ok, arg |-> choice,
                    imported_vaults |-> r.imported_vaults,
                    imported_items |-> r.imported_items,
                    conflicts |-> r.conflicts,
                    warnings |-> r.warnings,
                    skipped_vaults |-> r.skipped_vaults,
                    calls |-> r.calls, met |-> r.met]))

\* sync_import ends between the INSERT of new protected vault k and its UPDATE
DoImportInsert(w, d, choice, k) ==
    Commit(w, d, sync_import_insert(ConnIn(w, d), w.now, w.file,
                                    ImportPasswords(ConnIn(w, d), w.file, choice),
                                    k),
           [op |-> "sync_import_vaults", dev |-> d, ok |-> FALSE,
            arg |-> <<choice, k>>])

\* ------------------------------------------------------------ initial states
\* Every initial state is the world some sequence of the handlers above leaves,
\* starting from two devices with empty databases and no sync file.

W0 ==
    [vaults |-> [d \in Dev |-> {}], items |-> [d \in Dev |-> {}],
     seq |-> [d \in Dev |-> [v |-> 0, i |-> 0]],
     settings |-> [d \in Dev |-> EmptyDb.settings],
     file |-> None, now |-> 1, entropy |-> 0,
     res |-> [op |-> "open", dev |-> "A", ok |-> TRUE, arg |-> <<>>],
     held |-> [d \in Dev |-> {}]]

\* both devices point at the shared folder
Wf == DoSetSyncFolder(DoSetSyncFolder(W0, "A"), "B")

VaultRow(w, d, id) == CHOOSE v \in w.vaults[d] : v.id = id

ItemRow(w, d, id) == CHOOSE i \in w.items[d] : i.id = id

\* A holds a plain vault with a live, decorated item and a tombstoned item, a
\* protected vault with an item, and a vault deleted with its item; B holds
\* nothing
SeedFresh ==
    Bind(DoCreateVault(Wf, "A", FALSE), LAMBDA f1 :
    Bind(DoAddItem(f1, "A", VaultRow(f1, "A", 1)), LAMBDA f2 :
    Bind(DoAddItem(f2, "A", VaultRow(f2, "A", 1)), LAMBDA f3 :
    Bind(DoDeleteItem(f3, "A", ItemRow(f3, "A", 2)), LAMBDA f4 :
    Bind(DoCreateVault(f4, "A", TRUE), LAMBDA f5 :
    Bind(DoAddItem(f5, "A", VaultRow(f5, "A", 2)), LAMBDA f6 :
    Bind(DoCreateVault(f6, "A", FALSE), LAMBDA f7 :
    Bind(DoAddItem(f7, "A", VaultRow(f7, "A", 3)), LAMBDA f8 :
    Bind(DoDeleteVault(f8, "A", VaultRow(f8, "A", 3)), LAMBDA f9 :
    Bind(DoUpdateSummary(f9, "A", ItemRow(f9, "A", 1)), LAMBDA f10 :
    Bind(DoUpdateImage(f10, "A", ItemRow(f10, "A", 1)), LAMBDA f11 :
         DoUpdateOrder(f11, "A", 1, <<1>>))))))))))))

\* A made a plain vault with one item and exported; B imported
SeedShared ==
    Bind(DoCreateVault(Wf, "A", FALSE), LAMBDA s1 :
    Bind(DoAddItem(s1, "A", VaultRow(s1, "A", 1)), LAMBDA s2 :
    Bind(DoExport(s2, "A", "none"), LAMBDA s3 :
         DoImport(s3, "B", "none"))))

\* A made a plain vault with one item and exported; B's import merged the
\* vault and failed at the captures; B edited the item, and after it A edited
\* it too and exported
SeedUnrecorded ==
    Bind(DoCreateVault(Wf, "A", FALSE), LAMBDA u1 :
    Bind(DoAddItem(u1, "A", VaultRow(u1, "A", 1)), LAMBDA u2 :
    Bind(DoExport(u2, "A", "none"), LAMBDA u3 :
    Bind(DoImportCapturesFail(u3, "B", "none"), LAMBDA u4 :
    Bind(DoUpdateContent(u4, "B", ItemRow(u4, "B", 1)), LAMBDA u5 :
    Bind(DoUpdateContent(u5, "A", ItemRow(u5, "A", 1)), LAMBDA u6 :
         DoExport(u6, "A", "none")))))))

\* or, after B's import failed at the captures, A deleted the item, B edited
\* it after that, and A exported
SeedUnrecordedDeleted ==
    Bind(DoCreateVault(Wf, "A", FALSE), LAMBDA x1 :
    Bind(DoAddItem(x1, "A", VaultRow(x1, "A", 1)), LAMBDA x2 :
    Bind(DoExport(x2, "A", "none"), LAMBDA x3 :
    Bind(DoImportCapturesFail(x3, "B", "none"), LAMBDA x4 :
    Bind(DoDeleteItem(x4, "A", ItemRow(x4, "A", 1)), LAMBDA x5 :
    Bind(DoUpdateContent(x5, "B", ItemRow(x5, "B", 1)), LAMBDA x6 :
         DoExport(x6, "A", "none")))))))

\* then B edited the item, and after it A edited it too
SeedEdited ==
    Bind(SeedShared, LAMBDA e0 :
    Bind(DoUpdateContent(e0, "B", ItemRow(e0, "B", 1)), LAMBDA e1 :
    Bind(DoUpdateTitle(e1, "A", ItemRow(e1, "A", 1)), LAMBDA e2 :
    Bind(DoUpdateSummary(e2, "A", ItemRow(e2, "A", 1)), LAMBDA e3 :
    Bind(DoUpdateImage(e3, "A", ItemRow(e3, "A", 1)), LAMBDA e4 :
    Bind(DoUpdateOrder(e4, "A", 1, <<1>>), LAMBDA e5 :
         DoUpdateContent(e5, "A", ItemRow(e5, "A", 1))))))))

\* or A made a second vault and moved the item into it
SeedMoved ==
    Bind(SeedShared, LAMBDA m0 :
    Bind(DoCreateVault(m0, "A", FALSE), LAMBDA m1 :
         DoMoveItem(m1, "A", ItemRow(m1, "A", 1), VaultRow(m1, "A", 2))))

\* or A renamed the vault
SeedRenamed ==
    Bind(SeedShared, LAMBDA n0 : DoRenameVault(n0, "A", VaultRow(n0, "A", 1)))

\* A made a plain vault, then a protected vault with one item, and exported
\* them with the key; B imported them with the password
SeedLocked ==
    Bind(DoCreateVault(Wf, "A", FALSE), LAMBDA k0 :
    Bind(DoCreateVault(k0, "A", TRUE), LAMBDA k1 :
    Bind(DoAddItem(k1, "A", VaultRow(k1, "A", 2)), LAMBDA k2 :
    Bind(DoExport(k2, "A", "right"), LAMBDA k3 :
         DoImport(k3, "B", "right")))))

\* or B deleted the shared vault, and A then added an item to it and exported
SeedRevived ==
    Bind(SeedShared, LAMBDA r0 :
    Bind(DoDeleteVault(r0, "B", VaultRow(r0, "B", 1)), LAMBDA r1 :
    Bind(DoAddItem(r1, "A", VaultRow(r1, "A", 1)), LAMBDA r2 :
         DoExport(r2, "A", "none"))))

\* A, with no sync folder set, holds a plain vault with three items, and a
\* protected vault with one item and one tombstoned item
SeedLocal ==
    Bind(DoCreateVault(W0, "A", FALSE), LAMBDA l1 :
    Bind(DoAddItem(l1, "A", VaultRow(l1, "A", 1)), LAMBDA l2 :
    Bind(DoAddItem(l2, "A", VaultRow(l2, "A", 1)), LAMBDA l3 :
    Bind(DoAddItem(l3, "A", VaultRow(l3, "A", 1)), LAMBDA l4 :
    Bind(DoCreateVault(l4, "A", TRUE), LAMBDA l5 :
    Bind(DoAddItem(l5, "A", VaultRow(l5, "A", 2)), LAMBDA l6 :
    Bind(DoAddItem(l6, "A", VaultRow(l6, "A", 2)), LAMBDA l7 :
         DoDeleteItem(l7, "A", ItemRow(l7, "A", 5)))))))))

\* A, with no sync folder set, holds a plain vault with a tombstoned item
SeedPlain ==
    Bind(DoCreateVault(W0, "A", FALSE), LAMBDA p1 :
    Bind(DoAddItem(p1, "A", VaultRow(p1, "A", 1)), LAMBDA p2 :
         DoDeleteItem(p2, "A", ItemRow(p2, "A", 1))))

Seeds ==
    {W0, Wf, SeedPlain, SeedRevived, SeedFresh, SeedShared, SeedEdited, SeedMoved, SeedRenamed, SeedLocked}

\* user operations a run makes after its initial state
MaxOps == 3

\* the longest retention a purge is asked for, in ticks of the clock
MaxDays == 2

\* the values a user stores as the retention: a number of days, or a text
\* that is no number
PurgeDaysValues == {ToString(n) : n \in 0..MaxDays} \cup {"soon"}

\* user operations a run makes after its initial state (SpecFull)
MaxFullOps == 2

\* user operations a run makes before the users stop editing (SpecRounds)
MaxEdits == 2

\* rounds of the exchange (A exports, B imports, B exports, A imports)
MaxRounds == 2

\* the vault rows and item rows of device d
Rows(w, d) == [vaults |-> w.vaults[d], items |-> w.items[d]]

Apply(w) ==
    /\ vaults' = w.vaults
    /\ items' = w.items
    /\ seq' = w.seq
    /\ settings' = w.settings
    /\ file' = w.file
    /\ now' = w.now
    /\ entropy' = w.entropy
    /\ res' = w.res
    /\ held' = w.held

Start(w, budget) ==
    /\ vaults = w.vaults
    /\ items = w.items
    /\ seq = w.seq
    /\ settings = w.settings
    /\ file = w.file
    /\ now = w.now
    /\ entropy = w.entropy
    /\ res = w.res
    /\ held = w.held
    /\ mark = [d \in Dev |-> Rows(w, d)]
    /\ left = budget
    /\ phase = "edit"
    /\ turn = 0

Init == \E w \in Seeds : Start(w, MaxOps)

InitRounds == \E w \in Seeds : Start(w, MaxEdits)

InitFull == \E w \in Seeds \cup {SeedLocal} : Start(w, MaxFullOps)

InitStops ==
    \E w \in Seeds \cup {SeedLocal, SeedUnrecorded, SeedUnrecordedDeleted} :
        Start(w, MaxFullOps)

\* ------------------------------------------------------------------ actions

\* one user operation: the handler runs from start to end on its own
User(w) ==
    /\ phase = "edit"
    /\ left > 0
    /\ left' = left - 1
    /\ Apply(w)
    /\ UNCHANGED <<mark, phase, turn>>

\* the handler that leaves world w ends before its last write, and the run
\* with it: the store is looked at as it was left
Halt(w) ==
    /\ phase = "edit"
    /\ left > 0
    /\ left' = 0
    /\ Apply(w)
    /\ UNCHANGED <<mark, phase, turn>>

\* the passwords worth trying: with nothing locked the map is not looked at
ExportChoices(d) ==
    IF \E v \in vaults[d] : v.has_password THEN {"none", "right", "wrong"}
    ELSE {"none"}

ImportChoices ==
    IF /\ IsSome(file)
       /\ IsSome(serde_json_from_str(file[1]))
       /\ \E k \in 1..Len(file[1].vaults) : file[1].vaults[k].has_password
    THEN {"none", "right", "wrong"}
    ELSE {"none"}

\* the orders of the members of S
Perms(S) ==
    {f \in [1..Cardinality(S) -> S] : \A j, k \in DOMAIN f : j # k => f[j] # f[k]}

\* the lists a user hands to update_vault_items_order for a vault: its items
\* on screen in a new order, or such a list drawn up before one of them was
\* replaced in the vault by an item of another vault
OrderChoices(db, vault_id) ==
    LET live == {i.id : i \in {j \in db.items : /\ j.vault_id = vault_id
                                                /\ IsNone(j.deleted_at)}}
        foreign == {i.id : i \in {j \in Visible(db) : j.vault_id # vault_id}}
    IN  UNION {Perms(S) :
                 S \in {live} \cup {(live \ {x}) \cup {f} : x \in live, f \in foreign}}

UpdateOrder(d) ==
    \E v \in Vault_list(Conn(d)) : \E ordered_ids \in OrderChoices(Conn(d), v.id) :
        /\ ordered_ids # <<>>
        /\ User(DoUpdateOrder(World, d, v.id, ordered_ids))

\* the keys a user can hold for a vault: the one of its password, and the one
\* of another password
KeyChoices(v) == {RightKey(v), VaultKey(PasswordOf(v) \o "?", v.id)}

\* the password a user changes a vault to
NewPassword == "new"

\* any vault row, or an id no row has
VerifyVaultPassword(d) ==
    \E vault_id \in {v.id : v \in vaults[d]} \cup {seq[d].v + 1} :
        \E key \in IF \E v \in vaults[d] : v.id = vault_id
                   THEN KeyChoices(CHOOSE v \in vaults[d] : v.id = vault_id)
                   ELSE {VaultKey(Password, vault_id)} :
            User(DoVerifyVaultPassword(World, d, vault_id, key))

ChangeVaultPassword(d) ==
    \E v \in Vault_list(Conn(d)) : \E old_key \in KeyChoices(v) :
        \E new_password \in {"", NewPassword} :
            \E new_has_password \in {None, Some(TRUE), Some(FALSE)} :
                User(DoChangeVaultPassword(World, d, v.id, old_key,
                                           new_password, new_has_password))

CreateVault(d) == \E hp \in BOOLEAN : User(DoCreateVault(World, d, hp))

AddItem(d) == \E v \in Vault_list(Conn(d)) : User(DoAddItem(World, d, v))

UpdateContent(d) == \E i \in Visible(Conn(d)) : User(DoUpdateContent(World, d, i))

DeleteItem(d) == \E i \in Visible(Conn(d)) : User(DoDeleteItem(World, d, i))

DeleteVault(d) == \E v \in Vault_list(Conn(d)) : User(DoDeleteVault(World, d, v))

RenameVault(d) == \E v \in Vault_list(Conn(d)) : User(DoRenameVault(World, d, v))

UpdateVaultCover(d) ==
    \E v \in Vault_list(Conn(d)) : User(DoUpdateVaultCover(World, d, v))

Purge(d) == \E days \in 0..MaxDays : User(DoPurge(World, d, days))

AutoPurge(d) == User(DoAutoPurge(World, d))

SetSyncSetting(d) ==
    \E value \in PurgeDaysValues :
        User(DoSetSyncSetting(World, d, "purge_deleted_after_days", value))

GetSyncStatus(d) == User(DoGetSyncStatus(World, d))

\* the captures step of sync_import fails on a file whose vaults it merged
ImportCapturesFail(d) ==
    /\ IsSome(get_sync_folder(Conn(d)))
    /\ IsSome(file)
    /\ IsSome(serde_json_from_str(file[1]))
    /\ ~version_unsupported(file[1])
    /\ \E c \in ImportChoices : User(DoImportCapturesFail(World, d, c))

\* the process ends, or the UPDATE fails, after the INSERT of create_vault
CreateVaultInsert(d) == Halt(DoCreateVaultInsert(World, d))

\* the process ends, or the UPDATE fails, after an INSERT of sync_import
ImportInsert(d) ==
    \E choice \in {"right", "wrong"} :
        \E k \in 1..(IF IsSome(file) /\ IsSome(serde_json_from_str(file[1]))
                      THEN Len(file[1].vaults) ELSE 0) :
            /\ InsertsProtectedVault(Conn(d), now, file,
                                     ImportPasswords(Conn(d), file, choice), k)
            /\ Halt(DoImportInsert(World, d, choice, k))

\* set_sync_setting with a key of the record of the last sync, and what a
\* user stores under each: the timestamp of an instant before every vault was
\* made, the name of a device
SetLastSyncSetting(d) ==
    LET values == [last_sync_at |-> {0}, last_sync_device |-> {"elsewhere"}]
    IN  \E key \in DOMAIN values : \E value \in values[key] :
            User(DoSetSyncSetting(World, d, key, value))

SetSyncFolder(d) ==
    /\ IsNone(get_sync_folder(Conn(d)))
    /\ User(DoSetSyncFolder(World, d))

ReplaceFile ==
    \E f \in ForeignFiles(file) : f # file /\ User(DoReplaceFile(World, f))

MoveItem(d) ==
    \E i \in Visible(Conn(d)) : \E v \in Vault_list(Conn(d)) :
        /\ v.id # i.vault_id
        /\ User(DoMoveItem(World, d, i, v))

SyncExport(d) == \E c \in ExportChoices(d) : User(DoExport(World, d, c))

SyncImport(d) == \E c \in ImportChoices : User(DoImport(World, d, c))

\* the users stop editing
StopEditing ==
    /\ phase = "edit"
    /\ phase' = "exchange"
    /\ UNCHANGED <<vaults, items, seq, settings, file, now, entropy, res, held,
                   mark, left, turn>>

\* the next step of the exchange, every password supplied
Exchange ==
    /\ phase = "exchange"
    /\ turn < 4 * MaxRounds
    /\ turn' = turn + 1
    /\ Apply(CASE turn % 4 = 0 -> DoExport(World, "A", "right")
               [] turn % 4 = 1 -> DoImport(World, "B", "right")
               [] turn % 4 = 2 -> DoExport(World, "B", "right")
               [] turn % 4 = 3 -> DoImport(World, "A", "right"))
    /\ mark' = IF turn % 4 = 0 THEN [d \in Dev |-> Rows(World, d)] ELSE mark
    /\ UNCHANGED <<left, phase>>

Next ==
    \/ ReplaceFile
    \/ \E d \in Dev :
        \/ SetSyncFolder(d)
        \/ Purge(d)
        \/ AutoPurge(d)
        \/ SetSyncSetting(d)
        \/ CreateVault(d)
        \/ AddItem(d)
        \/ UpdateContent(d)
        \/ DeleteItem(d)
        \/ DeleteVault(d)
        \/ RenameVault(d)
        \/ UpdateVaultCover(d)
        \/ MoveItem(d)
        \/ SyncExport(d)
        \/ SyncImport(d)

NextRounds == Next \/ StopEditing \/ Exchange

\* every handler of the store and of the sync engine
NextFull ==
    \/ Next
    \/ \E d \in Dev :
        \/ UpdateOrder(d)
        \/ VerifyVaultPassword(d)
        \/ ChangeVaultPassword(d)
        \/ SetLastSyncSetting(d)
        \/ GetSyncStatus(d)

\* every handler, the handlers that write a vault row in two statements
\* ending between the two, and the import failing after its last vault
NextStops ==
    \/ NextFull
    \/ \E d \in Dev :
        \/ CreateVaultInsert(d)
        \/ ImportInsert(d)
        \/ ImportCapturesFail(d)

Spec == Init /\ [][Next]_vars

SpecRounds == InitRounds /\ [][NextRounds]_vars

SpecFull == InitFull /\ [][NextFull]_vars

SpecStops == InitStops /\ [][NextStops]_vars

\* ------------------------------------------------------------------ claims
\* The properties below speak of the handler that has just returned (res) and,
\* for a sync_import, of its import_item calls and of the sync vaults it met.

Range(s) == {s[k] : k \in DOMAIN s}

Other(d) == CHOOSE e \in Dev : e # d

\* the import_item calls of the sync_import that has just returned
Calls == IF res.op = "sync_import" THEN Range(res.calls) ELSE {}

\* the local item with the sync item's uuid, as the call found it
LocalOf(c) == {i \in c.before : i.uuid = c.item.uuid}

\* both versions were modified since the last sync
ConflictCase(c) ==
    /\ LocalOf(c) # {}
    /\ IsNone(c.item.deleted_at)
    /\ IsSome(c.last_sync_at)
    /\ \A l \in LocalOf(c) :
          /\ l.updated_at > c.last_sync_at[1]
          /\ c.item.updated_at > c.last_sync_at[1]
          /\ l.updated_at # c.item.updated_at

\* C1 (import_item conflict rule): when a local item with the sync item's uuid
\* exists, the remote item is not tombstoned, last_sync_at is set and both
\* updated_at are later than it and differ, the call adds exactly one row, in
\* the vault being imported, titled "<remote title> [Conflict]", with a uuid no
\* item has and the remote content under the call's key; it leaves every row
\* it found (the local item among them) as it was; it returns Conflict(title),
\* and the title is in the conflicts of the SyncImportResult when the
\* sync_import returns one.
C1_ConflictRule ==
    \A c \in Calls :
        ConflictCase(c) =>
            /\ c.before \subseteq c.after
            /\ \E n \in c.after \ c.before :
                  /\ c.after \ c.before = {n}
                  /\ n.vault_id = c.vault_id
                  /\ n.title = c.item.title \o " [Conflict]"
                  /\ n.uuid \notin {i.uuid : i \in c.before \cup items[Other(res.dev)]}
                  /\ n.uuid # c.item.uuid
                  /\ decrypt_content(c.key, n.content) = Some(c.item.content)
            /\ c.result = <<"Conflict", c.item.title>>
            /\ res.ok => c.item.title \in Range(res.conflicts)

\* C1 witness: an import has met an item edited on both devices since the last
\* sync and has made the conflict copy
C1_Witness ==
    \E c \in Calls :
        /\ ConflictCase(c)
        /\ c.result[1] = "Conflict"
        /\ \E n \in items[res.dev] : n.title = c.item.title \o " [Conflict]"

\* the remote version is newer and there is no conflict
UpdateCase(c) ==
    /\ LocalOf(c) # {}
    /\ IsNone(c.item.deleted_at)
    /\ ~ConflictCase(c)
    /\ \A l \in LocalOf(c) : c.item.updated_at > l.updated_at

\* C10 (import_item update rule): when a local item with the same uuid exists,
\* the remote item is not tombstoned, the conflict condition does not hold and
\* remote.updated_at > local.updated_at, the local row's title, content
\* (encrypted under the key the call was given), image, summary, sort_order
\* and updated_at are the remote values, its id, uuid, created_at, vault_id and
\* deleted_at are unchanged, no other row changes, and the result is Updated.
C10_UpdateRule ==
    \A c \in Calls :
        UpdateCase(c) =>
            /\ c.result = <<"Updated">>
            /\ \A l \in LocalOf(c) :
                  \E n \in c.after :
                      /\ n.id = l.id
                      /\ c.after \ {n} = c.before \ {l}
                      /\ n.title = c.item.title
                      /\ n.content.key = c.key
                      /\ decrypt_content(c.key, n.content) = Some(c.item.content)
                      /\ n.image = c.item.image
                      /\ n.summary = c.item.summary
                      /\ n.sort_order = c.item.sort_order
                      /\ n.updated_at = c.item.updated_at
                      /\ n.uuid = l.uuid
                      /\ n.created_at = l.created_at
                      /\ n.vault_id = l.vault_id
                      /\ n.deleted_at = l.deleted_at

\* C10 witness: an import has overwritten a local item whose title, content,
\* image, summary and sort_order all differed from the remote ones
C10_Witness ==
    \E c \in Calls :
        /\ UpdateCase(c)
        /\ c.result[1] = "Updated"
        /\ \E l \in LocalOf(c) :
              /\ l.title # c.item.title
              /\ l.content.pt # c.item.content
              /\ l.image # c.item.image
              /\ l.summary # c.item.summary
              /\ l.sort_order # c.item.sort_order

\* the remote version is not newer and there is no conflict
StaleCase(c) ==
    /\ LocalOf(c) # {}
    /\ IsNone(c.item.deleted_at)
    /\ ~ConflictCase(c)
    /\ \A l \in LocalOf(c) : c.item.updated_at <= l.updated_at

\* C11 (import_item stale-remote rule): when a local item with the same uuid
\* exists, the remote item is not tombstoned, the conflict condition does not
\* hold and remote.updated_at <= local.updated_at, the call changes no item
\* row and no vault row, and the result is Skipped.
C11_StaleRule ==
    \A c \in Calls :
        StaleCase(c) =>
            /\ c.after = c.before
            /\ c.vaults_after = c.vaults_before
            /\ c.result = <<"Skipped">>

\* C11 witness: an import has met a remote version older than the local one,
\* with another title and content, and one as old as the local one
C11_Witness ==
    /\ \E c \in Calls :
          /\ StaleCase(c)
          /\ c.result = <<"Skipped">>
          /\ \E l \in LocalOf(c) :
                /\ c.item.updated_at < l.updated_at
                /\ c.item.content # l.content.pt
    /\ \E c \in Calls :
          /\ StaleCase(c)
          /\ \E l \in LocalOf(c) : c.item.updated_at = l.updated_at

\* the remote item is tombstoned; the local one is tombstoned too, or absent
TombstoneNoOpCase(c) ==
    /\ IsSome(c.item.deleted_at)
    /\ \A l \in LocalOf(c) : IsSome(l.deleted_at)

\* C12 (import_item tombstone no-op rule): when the remote item is tombstoned
\* and the local item with that uuid is already tombstoned or absent, the call
\* changes no item row and no vault row (no tombstone row is made, the local
\* deleted_at and updated_at are kept) and the result is Skipped.
C12_TombstoneNoOp ==
    \A c \in Calls :
        TombstoneNoOpCase(c) =>
            /\ c.after = c.before
            /\ c.vaults_after = c.vaults_before
            /\ c.result = <<"Skipped">>

\* C12 witness: one import has met a tombstone of an item the device does not
\* hold
C12_Witness ==
    \E c \in Calls :
        /\ TombstoneNoOpCase(c)
        /\ LocalOf(c) = {}
        /\ c.result = <<"Skipped">>

\* a second C12 case: the tombstone of an item the device holds tombstoned
C12_WitnessHeld ==
    \E c \in Calls :
        /\ TombstoneNoOpCase(c)
        /\ LocalOf(c) # {}
        /\ c.result = <<"Skipped">>

\* the remote item is live and the device has no item with its uuid
InsertCase(c) ==
    /\ LocalOf(c) = {}
    /\ IsNone(c.item.deleted_at)

\* C13 (import_item insert rule): when no local item has the sync item's uuid
\* and the sync item is not tombstoned, the call adds exactly one row, in the
\* vault being imported, with the remote uuid, title, created_at, updated_at,
\* image, summary and sort_order and the remote content encrypted under the
\* key the call was given, changes no other row, and the result is Imported.
C13_InsertRule ==
    \A c \in Calls :
        InsertCase(c) =>
            /\ c.before \subseteq c.after
            /\ c.vaults_after = c.vaults_before
            /\ \E n \in c.after \ c.before :
                  /\ c.after \ c.before = {n}
                  /\ n.vault_id = c.vault_id
                  /\ n.uuid = c.item.uuid
                  /\ n.title = c.item.title
                  /\ n.created_at = c.item.created_at
                  /\ n.updated_at = c.item.updated_at
                  /\ n.image = c.item.image
                  /\ n.summary = c.item.summary
                  /\ n.sort_order = c.item.sort_order
                  /\ n.content.key = c.key
                  /\ decrypt_content(c.key, n.content) = Some(c.item.content)
                  /\ IsNone(n.deleted_at)
            /\ c.result = <<"Imported">>

\* C13 witness: an import has added an item to a vault the device already had
C13_Witness ==
    \E c \in Calls :
        /\ InsertCase(c)
        /\ c.result = <<"Imported">>
        /\ \E i \in c.before : i.vault_id = c.vault_id
        /\ \E n \in items[res.dev] :
              n.uuid = c.item.uuid /\ n.vault_id = c.vault_id

\* the remote item is tombstoned and the local one is not
TombstoneCase(c) ==
    /\ LocalOf(c) # {}
    /\ IsSome(c.item.deleted_at)
    /\ \A l \in LocalOf(c) : IsNone(l.deleted_at)

Met == IF res.op = "sync_import" THEN Range(res.met) ELSE {}

\* the local vault with the sync vault's uuid, as the loop found it
LocalVaultOf(e) == {v \in e.before.vaults : v.uuid = e.sync_vault.uuid}

\* the sync items of a sync vault that carry no tombstone
LiveSyncItems(sv) == {sv.items[k] : k \in {j \in DOMAIN sv.items : IsNone(sv.items[j].deleted_at)}}

\* the remote vault is tombstoned and the local one is not
VaultTombstoneCase(e) ==
    /\ IsSome(e.sync_vault.deleted_at)
    /\ LocalVaultOf(e) # {}
    /\ \A v \in LocalVaultOf(e) : IsNone(v.deleted_at)

\* C7 (vault tombstone propagation): when sync_import meets a sync vault with
\* deleted_at set whose uuid is that of a local vault not tombstoned, the local
\* vault row takes the remote deleted_at, every item row of that vault has
\* deleted_at set, the item rows are otherwise what they were (none added,
\* none updated), no import_item call is made for the vault, and the same
\* holds of the vault when the import returns.
C7_VaultTombstone ==
    \A e \in Met :
        VaultTombstoneCase(e) =>
            \A v \in LocalVaultOf(e) :
                /\ \E n \in e.after.vaults :
                      /\ n.id = v.id
                      /\ n.deleted_at = e.sync_vault.deleted_at
                      /\ e.after.vaults \ {n} = e.before.vaults \ {v}
                /\ \A i \in e.after.items : i.vault_id = v.id => IsSome(i.deleted_at)
                /\ e.after.items =
                      {IF i.vault_id = v.id /\ IsNone(i.deleted_at)
                       THEN [i EXCEPT !.deleted_at = e.sync_vault.deleted_at]
                       ELSE i : i \in e.before.items}
                /\ \A c \in Calls : c.vault_id # v.id
                /\ \A n \in vaults[res.dev] : n.id = v.id => IsSome(n.deleted_at)
                /\ \A i \in items[res.dev] : i.vault_id = v.id => IsSome(i.deleted_at)

\* C7 witness: an import has met the tombstone of a vault that was live here
\* and held a live item, while the file carried items for it
C7_Witness ==
    \E e \in Met :
        /\ VaultTombstoneCase(e)
        /\ e.sync_vault.items # <<>>
        /\ \E v \in LocalVaultOf(e) :
              /\ \E i \in e.before.items : i.vault_id = v.id /\ IsNone(i.deleted_at)
              /\ \A i \in items[res.dev] : i.vault_id = v.id => IsSome(i.deleted_at)

\* the step is a sync_import of device d
ImportStep(d) ==
    /\ res'.op = "sync_import"
    /\ res'.dev = d
    /\ now' # now

\* what the import of device d is about to find: no sync folder configured, no
\* sync file, a file that is no SyncFile, or one of another format version
FileLevelFailure(d) ==
    \/ IsNone(settings[d].sync_folder)
    \/ IsNone(file)
    \/ "vaults" \notin DOMAIN file[1]
    \/ file[1].format_version # "1.0"

\* C16 (file-level import failures are fatal and leave the store unchanged):
\* when the sync folder is not configured, the sync file is missing or does
\* not parse, or its format_version is not the supported version string,
\* sync_import returns an error and no vault row, item row, last_sync_at or
\* last_sync_device has changed.
C16_FileLevelFailure ==
    [][\A d \in Dev :
          ImportStep(d) /\ FileLevelFailure(d) =>
              /\ ~res'.ok
              /\ vaults'[d] = vaults[d]
              /\ items'[d] = items[d]
              /\ settings'[d].last_sync_at = settings[d].last_sync_at
              /\ settings'[d].last_sync_device = settings[d].last_sync_device
              /\ vaults'[Other(d)] = vaults[Other(d)]
              /\ items'[Other(d)] = items[Other(d)]]_vars

\* C16 witness: a sync_import has failed on a file of another format version
\* that carried a newer version of an item of the device
C16_Witness ==
    /\ res.op = "sync_import"
    /\ ~res.ok
    /\ IsSome(settings[res.dev].sync_folder)
    /\ IsSome(file)
    /\ "vaults" \in DOMAIN file[1]
    /\ file[1].format_version # "1.0"
    /\ \E k \in DOMAIN file[1].vaults :
          \E j \in DOMAIN file[1].vaults[k].items :
             \E i \in items[res.dev] :
                /\ i.uuid = file[1].vaults[k].items[j].uuid
                /\ i.updated_at < file[1].vaults[k].items[j].updated_at

\* further C16 cases: an import with no sync folder configured while a sync
\* file exists, and an import of bytes that are no SyncFile
C16_WitnessNoFolder ==
    /\ res.op = "sync_import"
    /\ ~res.ok
    /\ IsNone(settings[res.dev].sync_folder)
    /\ IsSome(file)

C16_WitnessGarbage ==
    /\ res.op = "sync_import"
    /\ ~res.ok
    /\ IsSome(file)
    /\ "vaults" \notin DOMAIN file[1]
    /\ vaults[res.dev] # {}

\* C17 (export never aborts on a single bad vault): for any local vaults and
\* any supplied key map (keys absent or not the vault's key), a sync_export
\* of a device whose sync folder is configured returns Ok, has written the
\* sync file, and every vault of the device is in the file or, by name, in
\* skipped_vaults with a warning each.
C17_ExportNeverAborts ==
    res.op = "sync_export" /\ IsSome(settings[res.dev].sync_folder) =>
        /\ res.ok
        /\ IsSome(file)
        /\ file[1].exported_at = now - 1
        /\ \A v \in vaults[res.dev] :
              \/ \E k \in DOMAIN file[1].vaults : file[1].vaults[k].uuid = v.uuid
              \/ v.name \in Range(res.skipped_vaults)
        /\ Len(res.warnings) = Len(res.skipped_vaults)

\* the sync vaults of the file in the folder
FileVaults == {file[1].vaults[k] : k \in DOMAIN file[1].vaults}

\* the item rows of vault v on device d, and the sync items of sync vault sv,
\* each as uuid, title and tombstone
RowMarks(d, v) ==
    {<<i.uuid, i.title, i.deleted_at>> : i \in {j \in items[d] : j.vault_id = v.id}}

SyncItemMarks(sv) ==
    {<<sv.items[k].uuid, sv.items[k].title, sv.items[k].deleted_at>> :
        k \in DOMAIN sv.items}

\* C18 (export carries tombstones): after a sync_export that returned Ok, every
\* vault of the device that was not skipped is in the file, soft-deleted
\* vaults included, with the deleted_at of its row; and for every vault in the
\* file the sync items are exactly the item rows of that vault, one for one,
\* soft-deleted rows included with their deleted_at.
C18_ExportCarriesTombstones ==
    res.op = "sync_export" /\ res.ok =>
        /\ \A v \in vaults[res.dev] :
              v.name \notin Range(res.skipped_vaults) =>
                  \E sv \in FileVaults : sv.uuid = v.uuid
        /\ \A sv \in FileVaults :
              \E v \in vaults[res.dev] :
                 /\ v.uuid = sv.uuid
                 /\ sv.deleted_at = v.deleted_at
                 /\ SyncItemMarks(sv) = RowMarks(res.dev, v)
                 /\ Len(sv.items) = Cardinality({j \in items[res.dev] : j.vault_id = v.id})

\* C18 witness: an export has written a live vault holding a tombstoned item
\* and a tombstoned vault holding an item
C18_Witness ==
    /\ res.op = "sync_export"
    /\ res.ok
    /\ \E v \in vaults[res.dev] :
          /\ IsNone(v.deleted_at)
          /\ \E i \in items[res.dev] : i.vault_id = v.id /\ IsSome(i.deleted_at)
          /\ \E sv \in FileVaults :
                /\ sv.uuid = v.uuid
                /\ \E k \in DOMAIN sv.items : IsSome(sv.items[k].deleted_at)
    /\ \E v \in vaults[res.dev] :
          /\ IsSome(v.deleted_at)
          /\ \E i \in items[res.dev] : i.vault_id = v.id
          /\ \E sv \in FileVaults : sv.uuid = v.uuid /\ IsSome(sv.deleted_at)

\* C19 (per-vault import is all-or-nothing): if a write fails while
\* sync_import processes one sync vault, none of the writes made for that
\* vault is visible afterwards: the vault rows and item rows are those the
\* import had when it came to that sync vault.
C19_VaultAllOrNothing ==
    \A e \in Met :
        ~e.ok =>
            /\ e.after.vaults = e.before.vaults
            /\ e.after.items = e.before.items
            /\ vaults[res.dev] = e.before.vaults
            /\ items[res.dev] = e.before.items

\* the step is a purge_deleted_items(days) of device d
PurgeStep(d) ==
    /\ res'.op = "purge_deleted_items"
    /\ res'.dev = d
    /\ now' # now

\* a row deleted before the cutoff of the purge the step makes
BeforeCutoff(r) == IsSome(r.deleted_at) /\ r.deleted_at[1] < now - res'.arg

\* the vault rows of device d that the purge of the step removes
PurgedVaultIds(d) == {v.id : v \in {u \in vaults[d] : BeforeCutoff(u)}}

\* C20 as stated (purge threshold): purge_deleted_items(days) hard-deletes
\* every item whose deleted_at is earlier than now - days and retains every
\* item whose deleted_at is at or after that cutoff and every item that is not
\* tombstoned.
C20_PurgeThreshold ==
    [][\A d \in Dev :
          PurgeStep(d) =>
              \A i \in items[d] :
                  IF BeforeCutoff(i) THEN i \notin items'[d] ELSE i \in items'[d]]_vars

\* C20 amended: the same, where the items retained are those of vaults the
\* purge does not remove; a vault deleted before the cutoff goes with every
\* item row it still owns.
C20_PurgeThresholdKeptVaults ==
    [][\A d \in Dev :
          PurgeStep(d) =>
              \A i \in items[d] :
                  /\ BeforeCutoff(i) => i \notin items'[d]
                  /\ ~BeforeCutoff(i) /\ i.vault_id \notin PurgedVaultIds(d)
                        => i \in items'[d]]_vars

\* C20 witness: one purge has removed an item deleted before its cutoff and
\* has kept an item deleted at the cutoff and an item that is not deleted
C20_Witness ==
    /\ res.op = "purge_deleted_items"
    /\ res.purged_items > 0
    /\ \E i \in items[res.dev] :
          IsSome(i.deleted_at) /\ i.deleted_at[1] = (now - 1) - res.arg
    /\ \E i \in items[res.dev] : IsNone(i.deleted_at)

\* C21 (purge vault cascade): purge_deleted_items(days) removes exactly the
\* vault rows whose deleted_at is earlier than the cutoff, each with every item
\* row it still owns, and no other vault row; after the purge no item row
\* references a vault row the purge removed.
C21_PurgeVaultCascade ==
    [][\A d \in Dev :
          PurgeStep(d) =>
              /\ vaults'[d] = {v \in vaults[d] : ~BeforeCutoff(v)}
              /\ \A i \in items[d] :
                    i.vault_id \in PurgedVaultIds(d) => i \notin items'[d]
              /\ \A i \in items'[d] : i.vault_id \notin PurgedVaultIds(d)]_vars

\* C21 witness: a purge has removed a vault deleted before its cutoff with an
\* item the vault still owned that was itself not deleted before the cutoff,
\* and has kept another vault
C21_Witness ==
    /\ res.op = "purge_deleted_items"
    /\ \E v \in res.before.vaults :
          /\ v \notin vaults[res.dev]
          /\ \E i \in res.before.items :
                /\ i.vault_id = v.id
                /\ ~(IsSome(i.deleted_at)
                      /\ i.deleted_at[1] < (now - 1) - res.arg)
                /\ i \notin items[res.dev]
    /\ vaults[res.dev] # {}

\* the step is an auto_purge_if_enabled of device d
AutoPurgeStep(d) ==
    /\ res'.op = "auto_purge_if_enabled"
    /\ res'.dev = d
    /\ now' # now

\* the retention device d is configured with, in days: 30 when none is
\* stored, none when what is stored is no number
Retention(d) ==
    IF IsNone(settings[d].purge_deleted_after_days) THEN Some(30)
    ELSE IF \E n \in 0..MaxDays :
               ToString(n) = settings[d].purge_deleted_after_days[1]
         THEN Some(CHOOSE n \in 0..MaxDays :
                       ToString(n) = settings[d].purge_deleted_after_days[1])
         ELSE None

\* a row deleted before the cutoff of the configured retention
BeforeRetention(d, r) ==
    IsSome(r.deleted_at) /\ r.deleted_at[1] < now - Retention(d)[1]

\* the step returns None and leaves every row of device d in place
AutoPurgeSkipped(d) ==
    /\ vaults'[d] = vaults[d]
    /\ items'[d] = items[d]
    /\ res'.ok /\ res'.ret = None

\* the step returns the result of a purge with the configured retention, and
\* the rows of device d it leaves are those the purge leaves
AutoPurgeRan(d) ==
    /\ IsSome(Retention(d))
    /\ LET gone == {v.id : v \in {u \in vaults[d] : BeforeRetention(d, u)}}
       IN  /\ res'.ok /\ IsSome(res'.ret)
           /\ vaults'[d] = {v \in vaults[d] : v.id \notin gone}
           /\ items'[d] = {i \in items[d] : /\ ~BeforeRetention(d, i)
                                            /\ i.vault_id \notin gone}
           /\ res'.ret[1].purged_vaults = Cardinality(gone)
           /\ res'.ret[1].purged_items =
                 Cardinality({i \in items[d] : BeforeRetention(d, i)})

\* C22 as stated (auto-purge is gated on sync): with no sync_folder setting
\* stored, auto_purge_if_enabled removes no row and returns None; whenever a
\* sync_folder is stored it runs purge_deleted_items with the configured
\* retention (30 days when none is configured).
C22_AutoPurgeGated ==
    [][\A d \in Dev :
          AutoPurgeStep(d) =>
              IF IsNone(settings[d].sync_folder)
              THEN AutoPurgeSkipped(d)
              ELSE AutoPurgeRan(d)]_vars

\* C22 amended: the same, where the stored purge_deleted_after_days, if any,
\* is the text of a number; when it is not, auto_purge_if_enabled with a
\* sync_folder stored fails and removes no row.
C22_AutoPurgeGatedParsed ==
    [][\A d \in Dev :
          AutoPurgeStep(d) =>
              IF IsNone(settings[d].sync_folder)
              THEN AutoPurgeSkipped(d)
              ELSE IF IsSome(Retention(d))
                   THEN AutoPurgeRan(d)
                   ELSE /\ ~res'.ok
                        /\ vaults'[d] = vaults[d]
                        /\ items'[d] = items[d]]_vars

\* C22 witness: with a sync folder and a retention configured, an auto-purge
\* has removed a row
C22_Witness ==
    /\ res.op = "auto_purge_if_enabled"
    /\ IsSome(settings[res.dev].sync_folder)
    /\ IsSome(settings[res.dev].purge_deleted_after_days)
    /\ IsSome(res.ret)
    /\ res.ret[1].purged_items > 0
    /\ items[res.dev] # res.before.items

\* C22 witness: with no sync folder, an auto-purge has returned None and left
\* in place a row deleted before the cutoff of the configured retention
C22_WitnessNoFolder ==
    /\ res.op = "auto_purge_if_enabled"
    /\ IsNone(settings[res.dev].sync_folder)
    /\ res.ret = None
    /\ IsSome(settings[res.dev].purge_deleted_after_days)
    /\ \E i \in items[res.dev] :
          /\ IsSome(i.deleted_at)
          /\ \E n \in 0..MaxDays :
                /\ ToString(n) = settings[res.dev].purge_deleted_after_days[1]
                /\ i.deleted_at[1] < (now - 1) - n

\* C22 witness: with a sync folder and no retention configured, an auto-purge
\* has run with the default and kept a tombstone younger than 30 days
C22_WitnessDefault ==
    /\ res.op = "auto_purge_if_enabled"
    /\ IsSome(settings[res.dev].sync_folder)
    /\ IsNone(settings[res.dev].purge_deleted_after_days)
    /\ res.ret = Some([purged_vaults |-> 0, purged_items |-> 0])
    /\ \E i \in items[res.dev] : IsSome(i.deleted_at)

\* the step is an update_vault_items_order of device d
UpdateOrderStep(d) ==
    /\ res'.op = "update_vault_items_order"
    /\ res'.dev = d
    /\ now' # now

\* the ids of the rows list_by_vault(vault_id) returns after the step
ListedAfter(d, vault_id) ==
    LET rows == VaultItem_list_by_vault([items |-> items'[d]], vault_id)
    IN  [k \in 1..Len(rows) |-> rows[k].id]

\* every id of ordered_ids is a non-deleted item of vault_id, named once
AllOwnedLive(d, vault_id, ordered_ids) ==
    /\ \A k \in 1..Len(ordered_ids) :
          \E i \in items[d] : /\ i.id = ordered_ids[k]
                               /\ i.vault_id = vault_id
                               /\ IsNone(i.deleted_at)
    /\ \A j, k \in 1..Len(ordered_ids) : j # k => ordered_ids[j] # ordered_ids[k]

\* C23 (reorder result): after update_order(vault_id, ordered_ids), where the
\* ids are distinct non-deleted items of vault_id, the item at position k
\* (from 0) has sort_order k, and list_by_vault(vault_id) returns the items in
\* the relative order of ordered_ids.
C23_ReorderResult ==
    [][\A d \in Dev :
          UpdateOrderStep(d) /\ AllOwnedLive(d, res'.arg[1], res'.arg[2]) =>
              LET vault_id == res'.arg[1]
                  ordered_ids == res'.arg[2]
                  listed == ListedAfter(d, vault_id)
                  at(id) == CHOOSE k \in 1..Len(listed) : listed[k] = id
              IN  /\ \A k \in 1..Len(ordered_ids) :
                        \E i \in items'[d] : /\ i.id = ordered_ids[k]
                                              /\ i.sort_order = Some(k - 1)
                  /\ \A k \in 1..Len(ordered_ids) :
                        \E j \in 1..Len(listed) : listed[j] = ordered_ids[k]
                  /\ \A j, k \in 1..Len(ordered_ids) :
                        j < k => at(ordered_ids[j]) < at(ordered_ids[k])]_vars

\* C23 witness: three items of a vault that had no sort_order have been given
\* an order other than the one of their creation, which list_by_vault returns
C23_Witness ==
    /\ res.op = "update_vault_items_order"
    /\ Len(res.arg[2]) = 3
    /\ LET rows == VaultItem_list_by_vault(Conn(res.dev), res.arg[1])
       IN  /\ [k \in 1..Len(rows) |-> rows[k].id] = res.arg[2]
           /\ \E k \in 1..Len(rows) :
                 \E m \in mark[res.dev].items :
                    /\ m.id = rows[k].id
                    /\ IsNone(m.sort_order)
                    /\ rows[k].sort_order = Some(k - 1)
           /\ \E j, k \in 1..Len(rows) :
                 j < k /\ rows[j].created_at < rows[k].created_at

\* C24 (reorder atomicity): if an id of ordered_ids does not belong to
\* vault_id, no item's sort_order has changed after update_order.
C24_ReorderAtomic ==
    [][\A d \in Dev :
          /\ UpdateOrderStep(d)
          /\ \E k \in 1..Len(res'.arg[2]) :
                \A i \in items[d] :
                    i.id = res'.arg[2][k] => i.vault_id # res'.arg[1]
          => \A i \in items[d] :
                \E j \in items'[d] :
                    j.id = i.id /\ j.sort_order = i.sort_order]_vars

\* the step is a change_vault_password of device d
ChangePasswordStep(d) ==
    /\ res'.op = "change_vault_password"
    /\ res'.dev = d
    /\ now' # now

\* the key derive_key(new_password, vault_id) of the change the step makes
NewKeyOf(a) == derive_key_from_password(a.new_password, ToString(a.vault_id))

\* C25 (password change re-encrypts everything): after change_vault_password
\* returns Ok, every item row of the vault, soft-deleted rows included,
\* decrypts under derive_key(new_password, vault_id) to the plaintext it had,
\* and none is left under the old key.
C25_ReencryptsEverything ==
    [][\A d \in Dev :
          ChangePasswordStep(d) /\ res'.ok =>
              \A i \in items[d] :
                  i.vault_id = res'.arg.vault_id =>
                      \E j \in items'[d] :
                          /\ j.id = i.id
                          /\ decrypt_content(NewKeyOf(res'.arg), j.content)
                                = Some(i.content.pt)
                          /\ NewKeyOf(res'.arg) # res'.arg.old_key
                                => IsNone(decrypt_content(res'.arg.old_key,
                                                          j.content))]_vars

\* C26 (password change is atomic): if change_vault_password returns an
\* error, every item's content and every vault's encrypted_password and
\* has_password are as before the call.
C26_PasswordChangeAtomic ==
    [][\A d \in Dev :
          ChangePasswordStep(d) /\ ~res'.ok =>
              /\ \A i \in items[d] :
                    \E j \in items'[d] : j.id = i.id /\ j.content = i.content
              /\ \A v \in vaults[d] :
                    \E u \in vaults'[d] :
                        /\ u.id = v.id
                        /\ u.encrypted_password = v.encrypted_password
                        /\ u.has_password = v.has_password]_vars

\* C26 witness: a change_vault_password has failed on an item that did not
\* decrypt under the old key, after an item of the vault that did
C26_Witness ==
    /\ res.op = "change_vault_password"
    /\ res.err = "Decryption failed"
    /\ LET its == VaultItem_list_by_vault([items |-> res.before.items],
                                          res.arg.vault_id)
       IN  /\ Len(its) > 1
           /\ IsSome(decrypt_content(res.arg.old_key, its[1].content))
           /\ NewKeyOf(res.arg) # res.arg.old_key

\* C26 witness: a change_vault_password has been refused for its old key
C26_WitnessRejected ==
    /\ res.op = "change_vault_password"
    /\ res.err = "Invalid password"
    /\ items[res.dev] # {}

\* C27 (password verification): verify_vault_key(vault_id, key) fails with
\* "Vault not found" when no vault row has the id; it succeeds for any key
\* when the row has has_password = false; when has_password = true it
\* succeeds if the stored payload decrypts under the key and fails with
\* "Invalid password" if not.
C27_VerifyVaultKey ==
    res.op = "verify_vault_password" =>
        LET rows == {v \in vaults[res.dev] : v.id = res.arg[1]}
        IN  IF rows = {} THEN res.err = "Vault not found"
            ELSE \A v \in rows :
                    IF ~v.has_password THEN res.err = "Ok"
                    ELSE IF /\ IsSome(v.encrypted_password)
                            /\ v.encrypted_password[1].key = res.arg[2]
                         THEN res.err = "Ok"
                         ELSE res.err = "Invalid password"

\* C27 witness: a key that is not the vault's has been refused for a protected
\* vault
C27_Witness ==
    /\ res.op = "verify_vault_password"
    /\ res.err = "Invalid password"
    /\ \E v \in vaults[res.dev] : v.id = res.arg[1] /\ v.has_password

\* C27 witness: the key of a protected vault has been accepted
C27_WitnessAccepted ==
    /\ res.op = "verify_vault_password"
    /\ res.err = "Ok"
    /\ \E v \in vaults[res.dev] : v.id = res.arg[1] /\ v.has_password

\* C27 witness: a key of another password has been accepted for a plain vault
C27_WitnessPlain ==
    /\ res.op = "verify_vault_password"
    /\ res.err = "Ok"
    /\ \E v \in vaults[res.dev] :
          v.id = res.arg[1] /\ ~v.has_password /\ res.arg[2] # RightKey(v)

\* C27 witness: an id that no vault row has has been reported as not found
C27_WitnessNotFound ==
    /\ res.op = "verify_vault_password"
    /\ res.err = "Vault not found"
    /\ vaults[res.dev] # {}

\* the step is a delete_vault of device d
DeleteVaultStep(d) ==
    /\ res'.op = "delete_vault"
    /\ res'.dev = d
    /\ now' # now

\* C28 (vault soft-delete cascade): Vault::delete(vault_id) sets deleted_at,
\* to the time of the call, on the vault and on every item of it that was not
\* tombstoned, removes no row, and leaves the deleted_at of the items already
\* tombstoned and every row of the other vaults as they were; afterwards
\* Vault::list does not return the vault and list_by_vault returns none of its
\* items.
C28_VaultDeleteCascade ==
    [][\A d \in Dev :
          DeleteVaultStep(d) =>
              LET vault_id == res'.arg
                  after == [vaults |-> vaults'[d], items |-> items'[d]]
              IN  /\ {v.id : v \in vaults'[d]} = {v.id : v \in vaults[d]}
                  /\ {i.id : i \in items'[d]} = {i.id : i \in items[d]}
                  /\ Cardinality(vaults'[d]) = Cardinality(vaults[d])
                  /\ Cardinality(items'[d]) = Cardinality(items[d])
                  /\ \A v \in vaults[d] :
                        IF v.id = vault_id
                        THEN \E u \in vaults'[d] :
                                u.id = v.id /\ u.deleted_at = Some(now)
                        ELSE v \in vaults'[d]
                  /\ \A i \in items[d] :
                        IF i.vault_id = vault_id
                        THEN \E j \in items'[d] :
                                /\ j.id = i.id
                                /\ j.deleted_at = IF IsNone(i.deleted_at)
                                                  THEN Some(now)
                                                  ELSE i.deleted_at
                        ELSE i \in items'[d]
                  /\ \A v \in Vault_list(after) : v.id # vault_id
                  /\ VaultItem_list_by_vault(after, vault_id) = <<>>]_vars

\* C28 witness: a vault has been deleted that owned an item not tombstoned and
\* an item tombstoned earlier, on a device that holds another vault with an
\* item
C28_Witness ==
    /\ res.op = "delete_vault"
    /\ \E i, j \in items[res.dev] :
          /\ i.vault_id = res.arg /\ j.vault_id = res.arg
          /\ i.deleted_at = Some(now - 1)
          /\ IsSome(j.deleted_at) /\ j.deleted_at[1] < now - 1
    /\ \E i \in items[res.dev] : i.vault_id # res.arg /\ IsNone(i.deleted_at)

\* the item rows of device d that the step writes: the rows after it that
\* were not there, as they are, before it
Written(d) == items'[d] \ items[d]

\* the vaults a written row j concerns: the one that owns it after the step
\* and, if the row was there before, the one that owned it then
Concerns(d, j) ==
    {j.vault_id} \cup {i.vault_id : i \in {x \in items[d] : x.id = j.id}}

\* C29 (vault updated_at is monotone and always bumped): in no step does the
\* updated_at of a vault row decrease; a step that changes the vault row moves
\* its updated_at forward, and a step that writes an item row of the vault
\* leaves the vault's updated_at at or after the updated_at of that write.
C29_VaultUpdatedAt ==
    [][\A d \in Dev : \A v \in vaults[d] : \A u \in vaults'[d] :
          u.id = v.id =>
              /\ u.updated_at >= v.updated_at
              /\ u # v => u.updated_at > v.updated_at
              /\ \A j \in Written(d) :
                    v.id \in Concerns(d, j) => u.updated_at >= j.updated_at]_vars

\* no two vault rows of a device share a uuid, and no two item rows
UuidUnique ==
    \A d \in Dev :
        /\ \A v, u \in vaults[d] : v.uuid = u.uuid => v = u
        /\ \A i, j \in items[d] : i.uuid = j.uuid => i = j

\* the row a call of import_item added as a conflict copy has a uuid that no
\* row had when the call was made
ConflictCopyFresh ==
    \A c \in Calls :
        c.result[1] = "Conflict" =>
            \A n \in c.after \ c.before :
                /\ n.uuid \notin {i.uuid : i \in c.before}
                /\ n.uuid \notin {v.uuid : v \in c.vaults_before}
                /\ n.uuid # c.item.uuid

\* the step leaves every row that stays with the uuid it had
UuidKept ==
    \A d \in Dev :
        /\ \A v \in vaults[d] : \A u \in vaults'[d] : u.id = v.id => u.uuid = v.uuid
        /\ \A i \in items[d] : \A j \in items'[d] : j.id = i.id => j.uuid = i.uuid

\* C30 (uuid is unique and immutable): in every reachable state no two vault
\* rows of a device share a uuid and no two item rows do; no step changes the
\* uuid of a vault row or item row that exists before and after it; a conflict
\* copy gets a uuid that no existing row has.
C30_UuidUniqueImmutable ==
    [](UuidUnique /\ ConflictCopyFresh) /\ [][UuidKept]_vars

\* C30 witness: an import has added a conflict copy next to the item it
\* copies, the device's rows have been written by other handlers before, and
\* every item row has a uuid of its own
C30_Witness ==
    /\ \E c \in Calls :
          /\ c.result[1] = "Conflict"
          /\ \E n \in items[res.dev] : \E l \in items[res.dev] :
                /\ n \in c.after \ c.before
                /\ l.uuid = c.item.uuid
                /\ n.vault_id = l.vault_id
                /\ n.uuid # l.uuid
                /\ l.updated_at # l.created_at

\* the sync vault matches a local vault and is not a tombstone to propagate
MetadataCase(e) ==
    /\ LocalVaultOf(e) # {}
    /\ ~VaultTombstoneCase(e)

\* C14 (vault metadata is last-write-wins): for a sync vault whose uuid is
\* that of a local vault, outside the tombstone-propagation case, sync_import
\* sets the local name, cover_image and updated_at to the remote values when
\* remote.updated_at > local.updated_at and changes nothing else of the vault
\* table; when remote.updated_at <= local.updated_at the vault table is
\* unchanged.
C14_VaultMetadata ==
    \A e \in Met :
        MetadataCase(e) =>
            \A v \in LocalVaultOf(e) :
                IF e.sync_vault.updated_at > v.updated_at
                THEN e.after.vaults =
                        (e.before.vaults \ {v}) \cup
                        {[v EXCEPT !.name = e.sync_vault.name,
                                   !.cover_image = e.sync_vault.cover_image,
                                   !.updated_at = e.sync_vault.updated_at]}
                ELSE e.after.vaults = e.before.vaults

\* C14 witness: one import has met a newer remote vault with another name and
\* another cover and has taken both
C14_Witness ==
    \E e \in Met :
        /\ MetadataCase(e)
        /\ \E v \in LocalVaultOf(e) :
              /\ e.sync_vault.updated_at > v.updated_at
              /\ e.sync_vault.name # v.name
              /\ e.sync_vault.cover_image # v.cover_image
              /\ \E n \in vaults[res.dev] :
                    /\ n.id = v.id
                    /\ n.name = e.sync_vault.name
                    /\ n.cover_image = e.sync_vault.cover_image

\* a second C14 case: an import has met an older remote vault with another
\* name and has kept the local one
C14_WitnessOlder ==
    \E e \in Met :
        /\ MetadataCase(e)
        /\ \E v \in LocalVaultOf(e) :
              /\ e.sync_vault.updated_at < v.updated_at
              /\ e.sync_vault.name # v.name
              /\ v \in vaults[res.dev]

\* the sync vault matches a local protected vault and the caller gave no
\* password for its uuid
MissingPasswordCase(e) ==
    /\ LocalVaultOf(e) # {}
    /\ \A v \in LocalVaultOf(e) : v.has_password
    /\ ~e.has_pwd

\* what skipping a sync vault is: no item row changed, the name appended to
\* skipped_vaults, one warning added, no conflict recorded, and the loop goes
\* on to the next sync vault of the file
SkippedWhole(k) ==
    LET e == res.met[k]
    IN  /\ e.after.items = e.before.items
        /\ e.after.skipped_vaults =
               Append(e.before.skipped_vaults, e.sync_vault.name)
        /\ Len(e.after.warnings) = Len(e.before.warnings) + 1
        /\ e.after.conflicts = e.before.conflicts
        /\ e.ok
        /\ k < Len(file[1].vaults) => Len(res.met) > k

\* C15 as stated (missing password on import): whenever a sync vault matches a
\* local password-protected vault and no password for its uuid is supplied,
\* sync_import skips the whole vault: none of its items is inserted, updated,
\* tombstoned or duplicated, its name is added to skipped_vaults with a
\* warning, and the import continues with the remaining vaults.
C15_MissingPassword ==
    res.op = "sync_import" =>
        \A k \in DOMAIN res.met :
            MissingPasswordCase(res.met[k]) => SkippedWhole(k)

\* C15 amended: the same, for a sync vault that is not a tombstone of a live
\* local vault; such a tombstone is applied to the vault and its items before
\* the password is looked at.
C15_MissingPasswordLive ==
    res.op = "sync_import" =>
        \A k \in DOMAIN res.met :
            MissingPasswordCase(res.met[k]) /\ ~VaultTombstoneCase(res.met[k])
                => SkippedWhole(k)

\* C15 witness: an import without passwords has met a protected vault of the
\* device whose remote item was newer than the local one, has left the item
\* alone, and has gone on to the next vault of the file
C15_Witness ==
    /\ res.op = "sync_import"
    /\ \E k \in DOMAIN res.met :
          LET e == res.met[k]
          IN  /\ MissingPasswordCase(e)
              /\ ~VaultTombstoneCase(e)
              /\ \E j \in DOMAIN e.sync_vault.items :
                    \E i \in e.before.items :
                       /\ i.uuid = e.sync_vault.items[j].uuid
                       /\ e.sync_vault.items[j].updated_at > i.updated_at
                       /\ i \in items[res.dev]
              /\ e.sync_vault.name \in Range(res.skipped_vaults)
              /\ k < Len(res.met)

\* C8 (a deleted vault is never materialized): when sync_import meets a sync
\* vault with deleted_at set and no local vault has its uuid, the vault rows
\* and the item rows are after it what they were before it, and when the
\* import returns the device has no vault of that uuid and, of the uuids the
\* sync vault carries, only the item rows it had before.
C8_DeletedVaultNotCreated ==
    \A e \in Met :
        (IsSome(e.sync_vault.deleted_at) /\ LocalVaultOf(e) = {}) =>
            /\ e.after.vaults = e.before.vaults
            /\ e.after.items = e.before.items
            /\ \A v \in vaults[res.dev] : v.uuid # e.sync_vault.uuid
            /\ \A i \in items[res.dev] :
                  \A k \in DOMAIN e.sync_vault.items :
                      i.uuid = e.sync_vault.items[k].uuid =>
                          \E j \in e.before.items : j.id = i.id

\* C8 witness: an import that has created a vault has also met the tombstone
\* of a vault unknown here, which carried an item
C8_Witness ==
    /\ res.op = "sync_import"
    /\ res.imported_vaults > 0
    /\ \E e \in Met :
          /\ IsSome(e.sync_vault.deleted_at)
          /\ LocalVaultOf(e) = {}
          /\ e.sync_vault.items # <<>>

\* a sync vault that is live, unknown here, and whose password (if it has one)
\* is in the map
NewVaultCase(e) ==
    /\ IsNone(e.sync_vault.deleted_at)
    /\ LocalVaultOf(e) = {}
    /\ e.sync_vault.has_password => e.has_pwd

\* C9 (import of a brand-new vault): when a non-tombstoned sync vault has no
\* local match and its password is supplied if it has one, sync_import adds
\* one vault row, with the remote uuid, and adds exactly one item row for each
\* non-tombstoned sync item, in that vault, with the remote uuid and title;
\* it adds no row for a tombstoned sync item, no "[Conflict]" item and no
\* conflicts entry, and leaves the rows it found as they were.
C9_NewVault ==
    \A e \in Met :
        NewVaultCase(e) =>
            /\ e.before.vaults \subseteq e.after.vaults
            /\ e.before.items \subseteq e.after.items
            /\ e.after.conflicts = e.before.conflicts
            /\ \E n \in e.after.vaults \ e.before.vaults :
                  /\ e.after.vaults \ e.before.vaults = {n}
                  /\ n.uuid = e.sync_vault.uuid
                  /\ LET added == e.after.items \ e.before.items
                     IN  /\ \A i \in added : i.vault_id = n.id
                         /\ {<<i.uuid, i.title>> : i \in added} =
                                {<<si.uuid, si.title>> : si \in LiveSyncItems(e.sync_vault)}
                         /\ Cardinality(added) =
                                Cardinality(LiveSyncItems(e.sync_vault))

\* the contents a user of device d may have typed so far
Typed(d) == {NewText("c", d, t) : t \in 1..now}

\* C2 (no edit is silently discarded): a content typed on the importing device
\* that the other device has never held (so whatever the file carries for the
\* item was written without it: both devices edited the item since they last
\* held the same version) is, after every import_item call, still the content
\* of some row of the importing device, the item itself or a "[Conflict]" copy.
C2_NoEditDiscarded ==
    \A c \in Calls :
        \A l \in c.before :
            (l.content.pt \in Typed(res.dev) \ held[Other(res.dev)]) =>
                \E n \in c.after : n.content.pt = l.content.pt

\* the non-deleted items of vault v among the rows its: uuid, title and the
\* content as the vault's key decrypts it
LiveView(v, its) ==
    {<<i.uuid, i.title, decrypt_content(RightKey(v), i.content)>> :
        i \in {j \in its : j.vault_id = v.id /\ IsNone(j.deleted_at)}}

\* the last handler was a sync_export of device a that wrote the file, with
\* the right key for every protected vault
ExportedAll(a) ==
    /\ res.op = "sync_export"
    /\ res.dev = a
    /\ res.ok
    /\ res.arg = "right" \/ \A v \in vaults[a] : ~v.has_password

\* this step is a sync_import of device b, whose store was empty, with the
\* password of every protected vault of the file
ImportsIntoEmpty(b) ==
    /\ now' # now
    /\ res'.op = "sync_import"
    /\ res'.dev = b
    /\ vaults[b] = {}
    /\ items[b] = {}
    /\ res'.arg = "right" \/ \A k \in DOMAIN file[1].vaults : ~file[1].vaults[k].has_password

\* C3 (round trip): when a sync_export with the right keys is followed by the
\* sync_import of its file into an empty store with the matching passwords,
\* the importer has, for every non-deleted vault of the exporter, a vault of
\* the same uuid whose non-deleted items are the exporter's non-deleted items
\* of that vault by uuid, title and decrypted content.
C3_RoundTrip ==
    [][\A a \in Dev :
         (ExportedAll(a) /\ ImportsIntoEmpty(Other(a))) =>
             \A v \in vaults[a] :
                 IsNone(v.deleted_at) =>
                     \E n \in vaults'[Other(a)] :
                         /\ n.uuid = v.uuid
                         /\ LiveView(n, items'[Other(a)]) = LiveView(v, items[a])]_vars

Agree ==
    \A va \in vaults["A"] :
        \A vb \in vaults["B"] :
            va.uuid = vb.uuid =>
                /\ va.name = vb.name
                /\ LiveView(va, items["A"]) = LiveView(vb, items["B"])

\* a whole round of the exchange has just ended and has changed no row
Settled ==
    /\ phase = "exchange"
    /\ turn > 0
    /\ turn % 4 = 0
    /\ \A d \in Dev : mark[d] = Rows(World, d)

\* C5 (convergence): once the users have stopped editing and a round of the
\* exchange (A exports, B imports, B exports, A imports, every password
\* supplied) changes no vault row and no item row, which is where the rounds
\* stay from then on, both devices hold for every vault they share the same
\* name and the same non-deleted items by uuid, title and decrypted content.
C5_Convergence == Settled => Agree

\* --------------------------------------------------- stored content (C31)

\* the sync items of the file in the folder
FileItems == UNION {Range(sv.items) : sv \in FileVaults}

\* the last handler was a sync_export of device d that returned Ok: the file
\* in the folder is the one it wrote from the rows d holds
ExportedBy(d) ==
    /\ res.op = "sync_export"
    /\ res.dev = d
    /\ res.ok

\* C31 (plaintext never persists): the content of every item row is an output
\* of encrypt_content, and stored content is read by decrypt_content only: the
\* content a sync_export that returned Ok wrote for an item is what opening
\* the row's content with decrypt_content gives under some key, never the
\* stored bytes taken as text.
C31_ContentOnlyDecrypted ==
    /\ \A d \in Dev :
          \A i \in items[d] :
              i.content = encrypt_content(i.content.key, i.content.pt, i.content.nonce)
    /\ \A d \in Dev :
          ExportedBy(d) =>
              \A si \in FileItems :
                  \E i \in items[d] :
                      /\ i.uuid = si.uuid
                      /\ decrypt_content(i.content.key, i.content) = Some(si.content)

\* ------------------------------------------------ record of the last sync (C32)

\* what device d records of its last sync
Watermark(d) == <<settings[d].last_sync_at, settings[d].last_sync_device>>

\* the step is a sync_export or a sync_import of device d
SyncStep(d) ==
    /\ now' # now
    /\ res'.op \in {"sync_export", "sync_import"}
    /\ res'.dev = d

\* the step is a set_sync_setting of device d with a key of the record
SetsLastSync(d) ==
    /\ now' = now
    /\ left' # left
    /\ res'.op = "set_sync_setting"
    /\ res'.dev = d
    /\ res'.arg[1] \in {"last_sync_at", "last_sync_device"}

\* a sync of device d that returns Ok records the time of the call and the
\* device (its own after an export, the file's after an import); one that
\* returns an error leaves the record as it was
WatermarkRecorded(d) ==
    IF res'.ok
    THEN Watermark(d)' =
            <<Some(now),
              Some(IF res'.op = "sync_export" THEN d ELSE file[1].device_name)>>
    ELSE Watermark(d)' = Watermark(d)

C32_WitnessFailed ==
    /\ res.op = "sync_import"
    /\ ~res.ok
    /\ IsSome(settings[res.dev].last_sync_at)

\* a sync_import has returned Ok and its device holds the exporter's name
C32_WitnessImported ==
    /\ res.op = "sync_import"
    /\ res.ok
    /\ Watermark(res.dev) = <<Some(now - 1), Some(Other(res.dev))>>

\* ------------------------------------------------------- sync status (C33)

\* the step is a get_sync_status of device d
StatusStep(d) ==
    /\ now' = now
    /\ left' # left
    /\ res'.op = "get_sync_status"
    /\ res'.dev = d

\* device d has a sync folder, and the file in it reads as a SyncFile
FileReadable(d) ==
    /\ IsSome(settings[d].sync_folder)
    /\ IsSome(file)
    /\ {"format_version", "device_name", "exported_at", "vaults", "captures"}
          \subseteq DOMAIN file[1]

\* C33 (sync status): check_sync_status reports has_changes = true exactly
\* when a sync folder is set, the sync file exists and parses, and the device
\* has no last_sync_at or the file's exported_at is later than it; so it
\* reports false right after the device's own sync_export that returned Ok,
\* and true when the file was exported by another device later than the last
\* sync of this device, which has the sync folder set.
C33_SyncStatus ==
    [][\A d \in Dev :
         StatusStep(d) =>
            /\ res'.ret.has_changes =
                  (/\ FileReadable(d)
                   /\ \/ IsNone(settings[d].last_sync_at)
                      \/ file[1].exported_at > settings[d].last_sync_at[1])
            /\ ExportedBy(d) => ~res'.ret.has_changes
            /\ (/\ FileReadable(d)
                /\ file[1].device_name = Other(d)
                /\ IsSome(settings[d].last_sync_at)
                /\ file[1].exported_at > settings[d].last_sync_at[1])
                  => res'.ret.has_changes]_vars

\* a status asked right after the device's own export reports no changes
C33_Witness ==
    /\ res.op = "get_sync_status"
    /\ ~res.ret.has_changes
    /\ res.ret.remote_device_name = Some(res.dev)
    /\ res.ret.remote_exported_at = res.ret.last_sync_at

\* a status reports the changes of a file the other device exported after
\* the last sync of this one
C33_WitnessRemote ==
    /\ res.op = "get_sync_status"
    /\ res.ret.has_changes
    /\ res.ret.remote_device_name = Some(Other(res.dev))
    /\ IsSome(res.ret.last_sync_at)
    /\ res.ret.remote_exported_at[1] > res.ret.last_sync_at[1]

\* a status reports changes on a device that has never synced
C33_WitnessNeverSynced ==
    /\ res.op = "get_sync_status"
    /\ res.ret.has_changes
    /\ IsNone(res.ret.last_sync_at)

\* a status reports no changes of a file that does not parse
C33_WitnessGarbage ==
    /\ res.op = "get_sync_status"
    /\ ~res.ret.has_changes
    /\ res.ret.remote_file_exists
    /\ IsNone(res.ret.remote_exported_at)

\* --------------------------------------------------- key consistency (C34)

\* every item row of device d owned by a vault row, tombstoned rows included,
\* opens under the key of the vault's password (the empty password for a
\* vault without one) and the vault's id
KeysConsistent(d) ==
    \A i \in items[d] :
        \A v \in vaults[d] :
            v.id = i.vault_id => IsSome(decrypt_content(RightKey(v), i.content))

\* the caller of the step hands over a key or a password that is not the
\* vault's
WrongKeySupplied ==
    \/ /\ res'.op \in {"sync_export", "sync_import"}
       /\ res'.arg = "wrong"
    \/ /\ res'.op = "change_vault_password"
       /\ \E v \in vaults[res'.dev] :
             /\ v.id = res'.arg.vault_id
             /\ res'.arg.old_key # RightKey(v)

\* C34 (key consistency): when every item row owned by a vault opens under
\* that vault's current key derive_key(password or "", vault id), and a
\* handler is called with the vault's correct key or password, every item row
\* owned by a vault opens under that vault's current key afterwards too.
C34_KeyConsistency ==
    [][\A d \in Dev :
         (KeysConsistent(d) /\ ~WrongKeySupplied) => KeysConsistent(d)']_vars

\* ---------------------------------------------- verification payload (C35)

\* the payload of vault row v is sealed under the key of the password it
\* holds and the id of v
PayloadOpens(v) ==
    /\ IsSome(v.encrypted_password)
    /\ IsSome(decrypt_content(
                  derive_key_from_password(v.encrypted_password[1].pt,
                                           ToString(v.id)),
                  v.encrypted_password[1]))

\* C35 (verification payload): in every state of the store, those between
\* the INSERT and the UPDATE of create_vault and of the new-vault path of
\* sync_import included, a vault with has_password = true stores a payload
\* that decrypts under derive_key(password, vault id), and a vault with
\* has_password = false stores the empty payload.
C35_VerificationPayload ==
    \A d \in Dev :
        \A v \in vaults[d] :
            IF v.has_password THEN PayloadOpens(v)
            ELSE v.encrypted_password = None

\* ------------------------------------------------- tombstone cascade (C36)

\* C36 (tombstone cascade): in every state reached by local operations and
\* imports, every item row owned by a vault row whose deleted_at is set has
\* its deleted_at set too: sync_import neither inserts a live item into a
\* locally tombstoned vault nor leaves one in it.
C36_TombstoneCascade ==
    \A d \in Dev :
        \A v \in vaults[d] :
            IsSome(v.deleted_at) =>
                \A i \in items[d] : i.vault_id = v.id => IsSome(i.deleted_at)

\* ------------------------------------------------ deletion is stable (C37)

\* the draws of uuids a run can make
MaxUuid == 24

\* device d holds the item of uuid u as a tombstone
Tombstoned(d, u) == \E i \in items[d] : i.uuid = u /\ IsSome(i.deleted_at)

\* list_by_vault of some vault of device d returns the item of uuid u
Listed(d, u) == \E i \in items[d] : i.uuid = u /\ IsNone(i.deleted_at)

\* device d held the item of uuid u as a tombstone when the purge that has
\* just returned on d began
PurgedTombstone(d, u) ==
    /\ res.op \in {"purge_deleted_items", "auto_purge_if_enabled"}
    /\ res.dev = d
    /\ \E i \in res.before.items : i.uuid = u /\ IsSome(i.deleted_at)

\* C37 (deletion is stable): once an item is soft-deleted on a device, no
\* list_by_vault of that device returns it again, whatever sync_import,
\* sync_export and purge_deleted_items run later: an item the device holds as
\* a tombstone, or whose tombstone the purge that has just returned removed,
\* is not listed on that device after the next handler.
C37_DeletionStable ==
    [][\A d \in Dev :
          \A u \in 1..MaxUuid :
              (Tombstoned(d, u) \/ PurgedTombstone(d, u)) => ~Listed(d, u)']_vars

\* ---------------------------------------- re-import after a conflict (C38)

\* C38 (re-import after a conflict): when a sync_import that made a conflict
\* copy is followed, with no handler in between, by a sync_import of the same
\* device with the same passwords and the same file, the second leaves every
\* item row as it was: the item keeps the local title and content, and no
\* second "[Conflict]" copy is added.
C38_ReimportAfterConflict ==
    [][(/\ res.op = "sync_import"
        /\ res.ok
        /\ \E c \in Calls : c.result[1] = "Conflict"
        /\ now' # now
        /\ res'.op = "sync_import"
        /\ res'.dev = res.dev
        /\ res'.arg = res.arg
        /\ file' = file) =>
           items'[res.dev] = items[res.dev]]_vars

\* ------------------------------------------------------ skipped vaults (C39)

\* sync_import added the name of the sync vault to skipped_vaults
SkippedCase(e) == e.after.skipped_vaults # e.before.skipped_vaults

\* C39 (a skipped vault is left untouched): for every sync vault whose name
\* sync_import adds to skipped_vaults, the vault rows (name, cover_image,
\* updated_at and deleted_at of the local vault among them) and the item rows
\* are what they were when the import came to it, and imported_vaults has
\* not been raised for it.
C39_SkippedUntouched ==
    \A e \in Met :
        SkippedCase(e) =>
            /\ e.after.vaults = e.before.vaults
            /\ e.after.items = e.before.items
            /\ e.after.imported_vaults = e.before.imported_vaults

\* ------------------------------------------- no watermark, no conflict (C40)

\* the import_item call was made by an import of a device with no last_sync_at
NoWatermark(c) == IsNone(c.last_sync_at)

\* the rows the call added
AddedBy(c) == {n \in c.after : \A l \in c.before : l.id # n.id}

\* the call leaves the local row of the sync item as last-write-wins on
\* updated_at has it: the remote title, content and updated_at when the
\* remote updated_at is the later one, the row as it was otherwise
LastWriteWins(c) ==
    \A l \in LocalOf(c) :
        \E n \in c.after :
            /\ n.id = l.id
            /\ IF c.item.updated_at > l.updated_at
               THEN /\ n.title = c.item.title
                    /\ n.content.pt = c.item.content
                    /\ n.updated_at = c.item.updated_at
               ELSE n = l

\* the call leaves the local row of the sync item as last-write-wins on
\* updated_at has it whatever the tombstones: the remote title, content,
\* updated_at and deleted_at when the remote updated_at is the later one, the
\* row as it was otherwise
LastWriteWinsAlways(c) ==
    \A l \in LocalOf(c) :
        \E n \in c.after :
            /\ n.id = l.id
            /\ IF c.item.updated_at > l.updated_at
               THEN /\ n.title = c.item.title
                    /\ n.content.pt = c.item.content
                    /\ n.updated_at = c.item.updated_at
                    /\ n.deleted_at = c.item.deleted_at
               ELSE n = l

\* C40 as stated (no watermark, no conflict): a sync_import of a device that
\* has no last_sync_at reports no conflict and no import_item call of it
\* returns Conflict or adds a "[Conflict]" copy next to a local item; every
\* sync item that matches a local item is resolved by last-write-wins on
\* updated_at alone.
C40_NoWatermarkLastWriteWins ==
    \A c \in Calls :
        NoWatermark(c) =>
            /\ res.conflicts = <<>>
            /\ c.result[1] # "Conflict"
            /\ LocalOf(c) # {} => AddedBy(c) = {}
            /\ LocalOf(c) # {} => LastWriteWinsAlways(c)

\* C40, amended: a sync_import of a device that has no last_sync_at reports
\* no conflict and no import_item call of it returns Conflict or adds a
\* "[Conflict]" copy next to a local item; a sync item without tombstone that
\* matches a local item is resolved by last-write-wins on updated_at alone:
\* the local row takes the remote title, content and updated_at when the
\* remote updated_at is the later one and stays as it was otherwise.
C40_NoWatermarkNoConflict ==
    \A c \in Calls :
        NoWatermark(c) =>
            /\ res.conflicts = <<>>
            /\ c.result[1] # "Conflict"
            /\ LocalOf(c) # {} => AddedBy(c) = {}
            /\ (LocalOf(c) # {} /\ IsNone(c.item.deleted_at)) => LastWriteWins(c)

\* an import of a device with no last_sync_at has met an item it holds, in a
\* version edited after the version held
C40_Witness ==
    \E c \in Calls :
        /\ NoWatermark(c)
        /\ IsNone(c.item.deleted_at)
        /\ \E l \in LocalOf(c) : c.item.updated_at > l.updated_at

\* an import of a device with no last_sync_at has made an import_item call
C40_WitnessFirstImport ==
    \E c \in Calls : NoWatermark(c)

====
